---------------------------- MODULE Spec2Model ----------------------------
(***************************************************************************)
(* Model of the 16x16 LED matrix game system: the WS2812 strip driver      *)
(* (src/src/WS2812.c) and the sensor / menu-selection logic of the game    *)
(* loop (src/unnamed/part_000).                                            *)
(*                                                                         *)
(* Several specifications share the variables below; each one fixes the    *)
(* variables it does not use:                                              *)
(*   SpecEnc     ws2812_write_byte applied to every byte value             *)
(*   SpecShow    ws2812_show applied to pixel buffers and brightness       *)
(*   SpecSensor  read_tof_sensor / get_sensor_position call sequences      *)
(*   SpecPos     the distance -> position arithmetic on every distance     *)
(*   Spec        game_task: one action per loop iteration                  *)
(*   SpecBoot    app_main, init_hardware and the creation of game_task     *)
(*   SpecGames   the four games, one action per game tick                  *)
(*   SpecAbsent  game_task in MENU mode without a sensor                   *)
(*   SpecScale   the brightness scaling of ws2812_show on every colour     *)
(*               and brightness value                                      *)
(***************************************************************************)
EXTENDS Integers, Sequences, FiniteSets, TLC

(***************************************************************************)
(* Program constants                                                       *)
(***************************************************************************)
WS2812_T0H_NS == 400
WS2812_T0L_NS == 850
WS2812_T1H_NS == 800
WS2812_T1L_NS == 450
\* the literal divisor of ws2812_write_byte (ns per RMT tick)
NS_PER_TICK == 25

\* Bound: number of pixels of the modelled strip (the program uses 256).
NumPixels == 2

VARIABLES
    \* ---- coordinate mapper (the last call of get_index)
    gi_x, gi_y,     \* its arguments
    gi_ret,         \* the value it returned, NoIndexCall before any call
    \* ---- pulse encoder (SpecEnc)
    enc_byte,       \* the byte given to ws2812_write_byte
    enc_items,      \* the items it wrote (<<>> before the call)
    alt_items,      \* the items ws2812_write of part_001 built for that byte
    scale_call,     \* the brightness scaling of one channel: [c, b, out]
    \* ---- strip (SpecShow)
    pixels,         \* strip->pixels: 0..NumPixels-1 -> [r, g, b]
    brightness,     \* strip->brightness
    rmt_items,      \* the pulse train handed to rmt_write_items by the last call
    show_result,    \* "none" | "sent" | "nomem": outcome of the last ws2812_show
    show_steps,     \* what the last ws2812_show did, in order
    show_ret,       \* what the last ws2812_show gave back to its caller
    \* ---- the last call of a strip operation (observations, not program state)
    strip_call,     \* [op, index, x, y, ret, was_lit]
    last_set,       \* index -> the colour most recently given to a set at
                    \* that index, black after init and after a clear
    \* ---- sensor reader (statics of read_tof_sensor, and the last call)
    sensor_initialized,
    sim_dist,       \* static uint16_t sim_dist
    dir,            \* static int dir
    rd_branch,      \* "none" | "hw" | "sim": branch taken by the last call
    rd_raw,         \* raw reading of the last call (hardware branch), else -1
    rd_ret,         \* value returned by the last call, -1 before any call
    rd_pos,         \* position computed by the last get_sensor_position, else -1
    hw_failures,    \* failed reads of an initialised sensor so far
    \* ---- game loop (globals of part_000)
    current_mode,
    menu_selection,
    last_stable_selection,
    selection_start_time,   \* uint32_t, as a pair <<high 16 bits, low 16 bits>>
    sensor_distance,
    timer,          \* esp_timer_get_time() / 1000: <<multiples of 65536, rest>>
    ticks,          \* iterations of the loop so far
    \* ---- what the last iteration did (observations, not program state)
    ev,             \* "boot" | "started" | "holding" | "confirmed" |
                    \* "out_of_range" | "game" | "game_over"
    tk_d2,          \* the sample read inside get_sensor_position, else -1
    tk_q,           \* new_selection computed by the iteration, else -1
    tk_had_cand,    \* whether a candidate existed when the iteration began
    q_run,          \* [q, since]: the quadrant computed by the latest menu
                    \* iterations in a row, and the timer value of the first
    inrange_since,  \* timer value of the first in-range menu iteration since
                    \* the last out-of-range one
    const_run,      \* [val, since]: menu iterations since Idle whose samples
                    \* all equalled val, or NoRun
    \* ---- start-up (SpecBoot): app_main and the task it creates
    proc,           \* "running" | "aborted" (abort() of ESP_ERROR_CHECK)
    strip,          \* "NULL" | "ok": the global strip pointer
    init_err,       \* outcome of ws2812_init, "none" before the call
    heap,           \* blocks ws2812_init has allocated and not freed
    rmt_state,      \* "none" | "configured" | "installed": the RMT channel
    tm_drawn,       \* test_matrix_mapping has drawn the pattern it shows next
    main_pc,        \* index into AppMainOrder of app_main's next statement
    tm_shows,       \* show_display calls test_matrix_mapping has finished
    task_pc,        \* "none" before xTaskCreate, then game_task's position
    in_flight,      \* tasks between rmt_write_items and the return of
                    \* ws2812_show
    tx_count,       \* transmissions started so far
    \* ---- the games (SpecGames): the statics of each run_* function
    pong,           \* pong_state_t pong, and initialized of run_pong
    flappy,         \* statics of run_flappy
    catch,          \* statics of run_catch
    inv,            \* statics of run_invaders
    game,           \* the game the menu hands over to, "none" outside SpecGames
    g_ev            \* "none" | "selected" | "played" | "returned": what the
                    \* last step of SpecGames did (observation)

encVars    == <<enc_byte, enc_items, alt_items, scale_call>>
idxVars    == <<gi_x, gi_y, gi_ret>>
stripVars  == <<pixels, brightness, rmt_items, show_result, show_steps,
                show_ret, strip_call, last_set>>
simVars    == <<sensor_initialized, sim_dist, dir, hw_failures>>
callVars   == <<rd_branch, rd_raw, rd_ret, rd_pos>>
loopVars   == <<current_mode, menu_selection, last_stable_selection,
                selection_start_time, sensor_distance, timer, ticks>>
obsVars    == <<ev, tk_d2, tk_q, tk_had_cand, q_run, inrange_since, const_run>>
bootVars   == <<proc, strip, init_err, heap, rmt_state, tm_drawn, main_pc,
                tm_shows, task_pc, in_flight, tx_count>>
gameVars   == <<pong, flappy, catch, inv, game, g_ev>>

(***************************************************************************)
(* Integer helpers with C semantics                                        *)
(***************************************************************************)
RECURSIVE Pow2(_)
Pow2(n) == IF n = 0 THEN 1 ELSE 2 * Pow2(n - 1)

\* a & b on non-negative integers
RECURSIVE BitAnd(_, _)
BitAnd(a, b) ==
    IF a = 0 \/ b = 0 THEN 0
    ELSE (a % 2) * (b % 2) + 2 * BitAnd(a \div 2, b \div 2)

\* conversion to uint8_t
U8(v) == v % 256

(***************************************************************************)
(* ws2812_write_byte                                                       *)
(***************************************************************************)
OneItem ==
    [level0 |-> 1, duration0 |-> WS2812_T1H_NS \div NS_PER_TICK,
     level1 |-> 0, duration1 |-> WS2812_T1L_NS \div NS_PER_TICK]

\* mutant: the divisor of the comment of line 98 ("50ns per tick")
ZeroItem_50ns ==
    [level0 |-> 1, duration0 |-> WS2812_T0H_NS \div 50,
     level1 |-> 0, duration1 |-> WS2812_T0L_NS \div 50]

ZeroItem ==
    [level0 |-> 1, duration0 |-> WS2812_T0H_NS \div NS_PER_TICK,
     level1 |-> 0, duration1 |-> WS2812_T0L_NS \div NS_PER_TICK]

\* mutant: the two timings exchanged
ItemForBit_swapped(byte, bit) ==
    IF BitAnd(byte, Pow2(bit)) # 0 THEN ZeroItem ELSE OneItem

\* mutant: least-significant bit first
ItemForBit_lsb(byte, bit) ==
    IF BitAnd(byte, Pow2(7 - bit)) # 0 THEN OneItem ELSE ZeroItem

\* body of the loop: if (byte & (1 << bit)) ... else ...
ItemForBit(byte, bit) ==
    IF BitAnd(byte, Pow2(bit)) # 0 THEN OneItem ELSE ZeroItem

\* for (int bit = 7; bit >= 0; bit--) { ...; item++; }
RECURSIVE WriteByteFrom(_, _)
WriteByteFrom(byte, bit) ==
    IF bit < 0 THEN << >>
    ELSE <<ItemForBit(byte, bit)>> \o WriteByteFrom(byte, bit - 1)

ws2812_write_byte(byte) == WriteByteFrom(byte, 7)

(***************************************************************************)
(* ws2812_write of part_001, the standalone driver                         *)
(***************************************************************************)
\* duration = NS / 10 * 8 / 100, evaluated left to right in int
AltTicks(ns) == ((ns \div 10) * 8) \div 100

AltOneItem ==
    [level0 |-> 1, duration0 |-> AltTicks(WS2812_T1H_NS),
     level1 |-> 0, duration1 |-> AltTicks(WS2812_T1L_NS)]

AltZeroItem ==
    [level0 |-> 1, duration0 |-> AltTicks(WS2812_T0H_NS),
     level1 |-> 0, duration1 |-> AltTicks(WS2812_T0L_NS)]

\* the inner loop: for (int bit = 7; bit >= 0; bit--)
RECURSIVE AltByteFrom(_, _)
AltByteFrom(byte, bit) ==
    IF bit < 0 THEN << >>
    ELSE <<IF BitAnd(byte, Pow2(bit)) # 0 THEN AltOneItem ELSE AltZeroItem>>
            \o AltByteFrom(byte, bit - 1)

\* the outer loop: for (size_t i = 0; i < len; i++)
RECURSIVE AltDataFrom(_, _)
AltDataFrom(data, i) ==
    IF i > Len(data) THEN << >>
    ELSE AltByteFrom(data[i], 7) \o AltDataFrom(data, i + 1)

\* the items ws2812_write hands to rmt_write_items; none when malloc fails
ws2812_write(data, alloc_ok) ==
    IF alloc_ok THEN AltDataFrom(data, 1) ELSE << >>

(***************************************************************************)
(* ws2812_show                                                             *)
(***************************************************************************)
\* mutant: the product kept in 8 bits before the division
ScaleChannel_wrap(c, b) == U8(U8(c * b) \div 255)

\* mutant: scaling by a shift instead of the division by 255
ScaleChannel_shift(c, b) == U8((c * b) \div 256)

\* uint8_t r = (strip->pixels[i].r * strip->brightness) / 255;
ScaleChannel(c, b) == U8((c * b) \div 255)

\* mutant: the channels written in r, g, b order
PixelItems_rgb(p, b) ==
    ws2812_write_byte(ScaleChannel(p.r, b))
        \o ws2812_write_byte(ScaleChannel(p.g, b))
        \o ws2812_write_byte(ScaleChannel(p.b, b))

\* one iteration of the pixel loop: g, then r, then b
PixelItems(p, b) ==
    ws2812_write_byte(ScaleChannel(p.g, b))
        \o ws2812_write_byte(ScaleChannel(p.r, b))
        \o ws2812_write_byte(ScaleChannel(p.b, b))

\* for (int i = 0; i < strip->pixel_count; i++) ...
RECURSIVE ShowItemsFrom(_, _, _)
ShowItemsFrom(px, b, i) ==
    IF i >= NumPixels THEN << >>
    ELSE PixelItems(px[i], b) \o ShowItemsFrom(px, b, i + 1)

\* int num_items = strip->pixel_count * 3 * 8;
NumItems == NumPixels * 3 * 8

\* ws2812_write_byte on the buffer: bit j goes to the slot the local cursor
\* points at, and the cursor moves one slot a bit (item++)
WriteByteAt(item, byte) ==
    [j \in 1..8 |-> [at |-> item + (j - 1), val |-> ws2812_write_byte(byte)[j]]]

\* mutant: the caller's cursor advanced by 7 slots a byte
NextItem_short(item) == item + 7

\* item += 8; in ws2812_show after each byte
NextItem(item) == item + 8

\* the writes of one iteration of the pixel loop, the cursor at item
PixelWrites(p, b, item) ==
    WriteByteAt(item, ScaleChannel(p.g, b))
        \o WriteByteAt(NextItem(item), ScaleChannel(p.r, b))
        \o WriteByteAt(NextItem(NextItem(item)), ScaleChannel(p.b, b))

\* the writes of the pixel loop from pixel i on, in program order
RECURSIVE ShowWritesFrom(_, _, _, _)
ShowWritesFrom(px, b, i, item) ==
    IF i >= NumPixels THEN << >>
    ELSE PixelWrites(px[i], b, item)
            \o ShowWritesFrom(px, b, i + 1,
                              NextItem(NextItem(NextItem(item))))

Black == [r |-> 0, g |-> 0, b |-> 0]

\* colours written by the modelled callers
Palette ==
    { Black,
      [r |-> 255, g |-> 0,   b |-> 0],
      [r |-> 0,   g |-> 255, b |-> 128],
      [r |-> 20,  g |-> 77,  b |-> 254] }

\* mutant: the wait for the end of the transmission left out
ShowSteps_nowait ==
    <<"build", "rmt_write_items", "free", "vTaskDelay", "return">>

\* the statements of ws2812_show after a successful malloc, lines 122..147:
\* the pixel loop, rmt_write_items(..., true), which blocks until the
\* peripheral has sent the items ("tx_done"), rmt_wait_tx_done, free, and
\* vTaskDelay(pdMS_TO_TICKS(1))
ShowSteps ==
    <<"build", "rmt_write_items", "tx_done", "rmt_wait_tx_done", "free",
      "vTaskDelay", "return">>

\* void ws2812_show(...): the caller gets no value, whatever happened
ShowReturn(alloc_ok) == "void"

\* mutant: the items built so far are sent when memory runs out
ws2812_show_partial(alloc_ok) ==
    /\ IF alloc_ok
       THEN /\ rmt_items' = ShowItemsFrom(pixels, brightness, 0)
            /\ show_result' = "sent"
            /\ show_steps' = ShowSteps
       ELSE /\ rmt_items' = PixelItems(pixels[0], brightness)
            /\ show_result' = "nomem"
            /\ show_steps' = <<"rmt_write_items", "return">>
    /\ show_ret' = ShowReturn(alloc_ok)
    /\ UNCHANGED <<pixels, brightness>>

\* ws2812_show: alloc_ok is the outcome of malloc(num_items * sizeof(...))
ws2812_show(alloc_ok) ==
    /\ IF alloc_ok
       THEN /\ rmt_items' = ShowItemsFrom(pixels, brightness, 0)
            /\ show_result' = "sent"
            /\ show_steps' = ShowSteps
       ELSE /\ rmt_items' = << >>
            /\ show_result' = "nomem"
            /\ show_steps' = <<"return">>
    /\ show_ret' = ShowReturn(alloc_ok)
    /\ UNCHANGED <<pixels, brightness>>

(***************************************************************************)
(* SpecEnc: the encoder on every byte                                      *)
(***************************************************************************)
NoIndexCall == -2

IdxIdle ==
    /\ gi_x = 0
    /\ gi_y = 0
    /\ gi_ret = NoIndexCall

\* no strip operation called yet
NoCall ==
    [op |-> "none", index |-> -1, x |-> -1, y |-> -1, ret |-> Black,
     was_lit |-> FALSE]

NoShow ==
    /\ rmt_items = << >>
    /\ show_result = "none"
    /\ show_steps = << >>
    /\ show_ret = "none"
    /\ strip_call = NoCall

StripIdle ==
    /\ pixels = [i \in 0..(NumPixels - 1) |-> Black]
    /\ brightness = 255
    /\ last_set = pixels
    /\ NoShow

NoScale == [c |-> 0, b |-> 0, out |-> -1]

EncIdle ==
    /\ enc_byte = 0
    /\ enc_items = << >>
    /\ alt_items = << >>
    /\ scale_call = NoScale

\* static pong_state_t pong (zero-initialised), static bool initialized.
\* ball_y, ball_vy and ai_y are floats that only decide the paddle tests;
\* they are not kept, and each paddle test may go either way.
PongStatics ==
    [ball_x |-> 0, ball_vx |-> 0, player_y |-> 0, player_score |-> 0,
     ai_score |-> 0, game_over |-> FALSE, initialized |-> FALSE]

\* statics of run_flappy; bird_y and bird_vy in twentieths (0.15 = 3/20);
\* flaps counts the flaps of the game under way
FlappyStatics ==
    [bird_y |-> 160, bird_vy |-> 0, pipe_x |-> 16, pipe_gap_y |-> 8,
     game_over |-> FALSE, initialized |-> FALSE, flaps |-> 0]

\* statics of run_catch; item_y in tenths (0.3 = 3/10)
CatchStatics ==
    [basket_x |-> 7, item_y |-> 0, item_x |-> 8, item_is_good |-> TRUE,
     lives |-> 3, score |-> 0, initialized |-> FALSE]

\* statics of run_invaders; fired records whether the last tick fired
InvadersStatics ==
    [player_x |-> 7, invaders |-> [i \in 0..19 |-> 0], bullet_x |-> -1,
     bullet_y |-> -1, invader_y |-> 0, initialized |-> FALSE, score |-> 0,
     last_player_x |-> 7, fired |-> FALSE]

GamesIdle ==
    /\ pong = PongStatics
    /\ flappy = FlappyStatics
    /\ catch = CatchStatics
    /\ inv = InvadersStatics
    /\ game = "none"
    /\ g_ev = "none"

\* the start-up variables in the specifications that begin after start-up
BootIdle ==
    /\ proc = "running"
    /\ strip = "ok"
    /\ init_err = "ok"
    /\ heap = {"strip", "pixels"}
    /\ rmt_state = "installed"
    /\ tm_drawn = FALSE
    /\ main_pc = 0
    /\ tm_shows = 0
    /\ task_pc = "none"
    /\ in_flight = {}
    /\ tx_count = 0

vars == <<encVars, idxVars, stripVars, simVars, callVars, loopVars, obsVars,
          bootVars, gameVars>>

NoTime == <<-1, -1>>
NoRun == [val |-> -1, since |-> NoTime]
NoQRun == [q |-> -1, since |-> NoTime]

LoopIdle ==
    /\ current_mode = "MENU"
    /\ menu_selection = -1
    /\ last_stable_selection = -1
    /\ selection_start_time = <<0, 0>>
    /\ sensor_distance = 200
    /\ timer = <<0, 0>>
    /\ ticks = 0
    /\ ev = "boot"
    /\ tk_d2 = -1
    /\ tk_q = -1
    /\ tk_had_cand = FALSE
    /\ q_run = NoQRun
    /\ inrange_since = NoTime
    /\ const_run = NoRun

SensorIdle ==
    /\ hw_failures = 0
    /\ sim_dist = 200
    /\ dir = 1
    /\ rd_branch = "none"
    /\ rd_raw = -1
    /\ rd_ret = -1
    /\ rd_pos = -1

InitEnc ==
    /\ IdxIdle
    /\ BootIdle
    /\ GamesIdle
    /\ enc_byte \in 0..255
    /\ enc_items = << >>
    /\ alt_items = << >>
    /\ scale_call = NoScale
    /\ StripIdle
    /\ sensor_initialized = FALSE
    /\ SensorIdle
    /\ LoopIdle

EncWrite ==
    /\ enc_items' = ws2812_write_byte(enc_byte)
    /\ UNCHANGED <<enc_byte, alt_items, scale_call, idxVars, stripVars, simVars, callVars, loopVars, obsVars, bootVars, gameVars>>

\* ws2812_write(data, 1) on the same byte
EncWriteStandalone ==
    /\ \E alloc_ok \in BOOLEAN :
          alt_items' = ws2812_write(<<enc_byte>>, alloc_ok)
    /\ UNCHANGED <<enc_byte, enc_items, scale_call, idxVars, stripVars, simVars, callVars, loopVars, obsVars, bootVars, gameVars>>

NextEnc == EncWrite \/ EncWriteStandalone

SpecEnc == InitEnc /\ [][NextEnc]_vars

\* bit n of a byte, by division
BitOf(byte, n) == (byte \div Pow2(n)) % 2

\* an item is a high phase of hi_ns followed by a low phase of lo_ns
IsPulse(item, hi_ns, lo_ns) ==
    /\ item.level0 = 1
    /\ item.duration0 * NS_PER_TICK = hi_ns
    /\ item.level1 = 0
    /\ item.duration1 * NS_PER_TICK = lo_ns

\* C1: for every byte, ws2812_write_byte writes exactly 8 items, most
\* significant bit first: item k (0..7) is the T1H/T1L pulse when bit 7-k of
\* the byte is set and the T0H/T0L pulse when it is clear.
C1_WriteByteMsbFirst ==
    enc_items # << >> =>
        /\ Len(enc_items) = 8
        /\ \A k \in 0..7 :
              IF BitOf(enc_byte, 7 - k) = 1
              THEN IsPulse(enc_items[k + 1], WS2812_T1H_NS, WS2812_T1L_NS)
              ELSE IsPulse(enc_items[k + 1], WS2812_T0H_NS, WS2812_T0L_NS)

\* C1 witness: 0xA5 was encoded as 1,0,1,0,0,1,0,1
C1_Witness ==
    /\ enc_byte = 165
    /\ Len(enc_items) = 8
    /\ \A k \in {1, 3, 6, 8} : enc_items[k].duration0 > enc_items[k].duration1
    /\ \A k \in {2, 4, 5, 7} : enc_items[k].duration0 < enc_items[k].duration1

\* the frequency of the clock the RMT divides, MHz
APB_CLK_MHZ == 80
\* config.clk_div of ws2812_init (WS2812.c) and of init_ws2812 (part_001)
RMT_CLK_DIV == 2
ALT_CLK_DIV == 1

\* the period of an RMT tick in tenths of a nanosecond
TickTenthNs(clk_div) == (clk_div * 10000) \div APB_CLK_MHZ

Distance(a, b) == IF a >= b THEN a - b ELSE b - a

\* C23: in the standalone driver (12.5 ns per tick) the durations computed
\* as NS / 10 * 8 / 100, times the tick period, are within one tick of
\* 800/450 ns for a 1-bit and of 400/850 ns for a 0-bit.
C23_StandaloneTimingWithinTick ==
    alt_items # << >> =>
        \A k \in 1..Len(alt_items) :
           LET tick == TickTenthNs(ALT_CLK_DIV)
               hi == alt_items[k].duration0 * tick
               lo == alt_items[k].duration1 * tick
               one == BitOf(enc_byte, 8 - k) = 1
           IN  /\ Distance(hi, IF one THEN 8000 ELSE 4000) <= tick
               /\ Distance(lo, IF one THEN 4500 ELSE 8500) <= tick

(***************************************************************************)
(* SpecShow: ws2812_show on every buffer content and brightness            *)
(***************************************************************************)
InitShow ==
    /\ IdxIdle
    /\ BootIdle
    /\ GamesIdle
    /\ pixels \in [0..(NumPixels - 1) -> Palette]
    /\ brightness \in 0..255
    /\ last_set = pixels
    /\ NoShow
    /\ EncIdle
    /\ sensor_initialized = FALSE
    /\ SensorIdle
    /\ LoopIdle

Show ==
    /\ \E alloc_ok \in BOOLEAN : ws2812_show(alloc_ok)
    /\ UNCHANGED <<strip_call, last_set>>
    /\ UNCHANGED <<encVars, idxVars, simVars, callVars, loopVars, obsVars, bootVars, gameVars>>

NextShow == Show

SpecShow == InitShow /\ [][NextShow]_vars

\* the bit an item carries: a '1' has the longer high phase
BitOfItem(item) == IF item.duration0 > item.duration1 THEN 1 ELSE 0

\* the byte carried by the 8 items starting at position first (1-based)
RECURSIVE DecodeFrom(_, _, _)
DecodeFrom(items, first, n) ==
    IF n = 0 THEN 0
    ELSE BitOfItem(items[first + n - 1]) + 2 * DecodeFrom(items, first, n - 1)

TrainByte(items, j) == DecodeFrom(items, 8 * j + 1, 8)

\* C2: the pulse train handed to the peripheral encodes pixel i, in index
\* order, as the three bytes floor(g*B/255), floor(r*B/255), floor(b*B/255).
C2_ShowGrbScaled ==
    show_result = "sent" =>
        /\ Len(rmt_items) = 24 * NumPixels
        /\ \A k \in 1..Len(rmt_items) : rmt_items[k] \in {OneItem, ZeroItem}
        /\ \A i \in 0..(NumPixels - 1) :
              /\ TrainByte(rmt_items, 3 * i) = (pixels[i].g * brightness) \div 255
              /\ TrainByte(rmt_items, 3 * i + 1) = (pixels[i].r * brightness) \div 255
              /\ TrainByte(rmt_items, 3 * i + 2) = (pixels[i].b * brightness) \div 255

\* C2 witness: pixel 0 = (255,0,0) at brightness 128 went out as (0,128,0)
C2_Witness ==
    /\ show_result = "sent"
    /\ pixels[0] = [r |-> 255, g |-> 0, b |-> 0]
    /\ brightness = 128
    /\ TrainByte(rmt_items, 0) = 0
    /\ TrainByte(rmt_items, 1) = 128
    /\ TrainByte(rmt_items, 2) = 0

(***************************************************************************)
(* read_tof_sensor and get_sensor_position                                 *)
(***************************************************************************)
MIN_RANGE == 50
MAX_RANGE == 400
SIM_STEP == 5
SIM_HIGH == 350
SIM_LOW == 100
POSITION_SCALE == 15
POSITION_SPAN == 350

\* conversion to uint16_t
U16(v) == v % 65536

\* integer division of C: truncation towards zero
CDiv(a, b) == IF a >= 0 THEN a \div b ELSE -((-a) \div b)

\* mutant: the upper clamp left out
ClampRange_noupper(d) == IF d < MIN_RANGE THEN MIN_RANGE ELSE d

\* if (distance_mm < 50) distance_mm = 50; if (distance_mm > 400) distance_mm = 400;
ClampRange(d) ==
    LET lo == IF d < MIN_RANGE THEN MIN_RANGE ELSE d
    IN  IF lo > MAX_RANGE THEN MAX_RANGE ELSE lo

\* mutant: the generator moves 1 mm a read
SimStep_slow(sd, dr) ==
    LET nd == U16(sd + dr)
        d1 == IF nd > SIM_HIGH THEN -1 ELSE dr
        d2 == IF nd < SIM_LOW THEN 1 ELSE d1
    IN  [sim_dist |-> nd, dir |-> d2]

\* sim_dist += dir * 5; if (sim_dist > 350) dir = -1; if (sim_dist < 100) dir = 1;
SimStep(sd, dr) ==
    LET nd == U16(sd + dr * SIM_STEP)
        d1 == IF nd > SIM_HIGH THEN -1 ELSE dr
        d2 == IF nd < SIM_LOW THEN 1 ELSE d1
    IN  [sim_dist |-> nd, dir |-> d2]

\* mutant: a failed read returns 0 and leaves the generator where it was
ReadTof_errvalue(initialized, sd, dr, o) ==
    IF initialized /\ o.ok
    THEN [dist |-> ClampRange(o.raw), sim_dist |-> sd, dir |-> dr,
          branch |-> "hw", raw |-> o.raw]
    ELSE [dist |-> 0, sim_dist |-> sd, dir |-> dr,
          branch |-> "sim", raw |-> -1]

\* One call of read_tof_sensor. o is what the hardware does when asked:
\* [ok |-> TRUE, raw |-> v] for a successful read of v, [ok |-> FALSE] for a
\* failed one; the hardware is asked only when the sensor was initialised.
ReadTof(initialized, sd, dr, o) ==
    IF initialized /\ o.ok
    THEN [dist |-> ClampRange(o.raw), sim_dist |-> sd, dir |-> dr,
          branch |-> "hw", raw |-> o.raw]
    ELSE LET st == SimStep(sd, dr)
         IN  [dist |-> st.sim_dist, sim_dist |-> st.sim_dist, dir |-> st.dir,
              branch |-> "sim", raw |-> -1]

\* mutant: the offset of 50 mm left out
PositionOf_nooffset(dist) ==
    LET pos == CDiv(dist * POSITION_SCALE, POSITION_SPAN)
    IN  IF pos < 0 THEN 0 ELSE IF pos > 15 THEN 15 ELSE pos

\* int pos = ((dist - 50) * 15) / 350; if (pos < 0) pos = 0; if (pos > 15) pos = 15;
PositionOf(dist) ==
    LET pos == CDiv((dist - MIN_RANGE) * POSITION_SCALE, POSITION_SPAN)
    IN  IF pos < 0 THEN 0 ELSE IF pos > 15 THEN 15 ELSE pos

HwFail == [ok |-> FALSE, raw |-> 0]
HwOk(v) == [ok |-> TRUE, raw |-> v]

\* raw readings offered to the sensor reader: dense round the clamp bounds
RawVals ==
    (45..55) \cup (395..405) \cup {0, 100, 200, 350, 8190, 65535}

\* Bound: failed reads of an initialised sensor that are explored
MaxReadFailures == 1

\* what the hardware may do at the next read
HwOutcomes(initialized, raws) ==
    IF initialized
    THEN {HwOk(v) : v \in raws}
            \cup (IF hw_failures < MaxReadFailures THEN {HwFail} ELSE {})
    ELSE {HwFail}

FailuresAfter(rd) ==
    IF sensor_initialized /\ rd.branch = "sim" THEN 1 ELSE 0

(***************************************************************************)
(* SpecSensor: sequences of sensor reads                                   *)
(***************************************************************************)
InitSensor ==
    /\ IdxIdle
    /\ BootIdle
    /\ GamesIdle
    /\ sensor_initialized \in BOOLEAN
    /\ SensorIdle
    /\ EncIdle
    /\ StripIdle
    /\ LoopIdle

read_tof_sensor(o) ==
    LET rd == ReadTof(sensor_initialized, sim_dist, dir, o)
    IN  /\ sim_dist' = rd.sim_dist
        /\ dir' = rd.dir
        /\ rd_branch' = rd.branch
        /\ rd_raw' = rd.raw
        /\ rd_ret' = rd.dist
        /\ rd_pos' = -1
        /\ hw_failures' = hw_failures + FailuresAfter(rd)
        /\ UNCHANGED <<sensor_initialized, encVars, idxVars, stripVars, loopVars, obsVars, bootVars, gameVars>>

get_sensor_position(o) ==
    LET rd == ReadTof(sensor_initialized, sim_dist, dir, o)
    IN  /\ sim_dist' = rd.sim_dist
        /\ dir' = rd.dir
        /\ rd_branch' = rd.branch
        /\ rd_raw' = rd.raw
        /\ rd_ret' = rd.dist
        /\ rd_pos' = PositionOf(rd.dist)
        /\ hw_failures' = hw_failures + FailuresAfter(rd)
        /\ UNCHANGED <<sensor_initialized, encVars, idxVars, stripVars, loopVars, obsVars, bootVars, gameVars>>

CallReadTof ==
    \E o \in HwOutcomes(sensor_initialized, RawVals) : read_tof_sensor(o)

CallGetSensorPosition ==
    \E o \in HwOutcomes(sensor_initialized, RawVals) : get_sensor_position(o)

NextSensor == CallReadTof \/ CallGetSensorPosition

SpecSensor == InitSensor /\ [][NextSensor]_vars

\* C8: every value read_tof_sensor returns lies in [50,400], on both branches,
\* and on hardware success it is the raw reading clamped into [50,400].
C8_ReadInOperatingRange ==
    rd_branch # "none" =>
        /\ rd_ret >= 50 /\ rd_ret <= 400
        /\ rd_branch = "hw" =>
              /\ rd_raw < 50 => rd_ret = 50
              /\ rd_raw > 400 => rd_ret = 400
              /\ (rd_raw >= 50 /\ rd_raw <= 400) => rd_ret = rd_raw

\* C8 witness: a successful hardware read of 8190 was returned as 400
C8_Witness ==
    /\ rd_branch = "hw"
    /\ rd_raw = 8190
    /\ rd_ret = 400

\* a step in which read_tof_sensor took the fallback branch
FallbackStep == rd_branch' = "sim" /\ sim_dist' # sim_dist

\* C9: successive fallback values form a triangle wave: consecutive values
\* differ by exactly 5 mm, the direction reverses only at the bounds, and
\* every returned fallback value lies between 100 and 350 mm inclusive.
C9_FallbackTriangleWithinBounds ==
    [][FallbackStep =>
        /\ (sim_dist' - sim_dist = 5 \/ sim_dist - sim_dist' = 5)
        /\ dir' # dir => (rd_ret' >= 350 \/ rd_ret' <= 100)
        /\ rd_ret' >= 100 /\ rd_ret' <= 350]_vars

(***************************************************************************)
(* SpecPos: get_sensor_position on every reading round the operating range *)
(***************************************************************************)
\* Bound: largest raw reading of the dense range
MaxRawDense == 450

InitPos ==
    /\ IdxIdle
    /\ BootIdle
    /\ GamesIdle
    /\ sensor_initialized = TRUE
    /\ SensorIdle
    /\ EncIdle
    /\ StripIdle
    /\ LoopIdle

PosCall == \E v \in 0..MaxRawDense : get_sensor_position(HwOk(v))

NextPos == PosCall

SpecPos == InitPos /\ [][NextPos]_vars

\* C10: for every distance d in [50,400] the position is in [0,15], is
\* non-decreasing in d, and is 0 for d = 50 and 15 for d = 400.
C10_PositionMonotone ==
    [][(rd_ret' >= 50 /\ rd_ret' <= 400) =>
        /\ rd_pos' >= 0 /\ rd_pos' <= 15
        /\ rd_ret' = 50 => rd_pos' = 0
        /\ rd_ret' = 400 => rd_pos' = 15
        /\ (rd_pos >= 0 /\ rd_ret <= rd_ret') => rd_pos <= rd_pos']_vars

\* C10 witness: the reading 400 was mapped to position 15
C10_Witness ==
    /\ rd_raw = 400
    /\ rd_ret = 400
    /\ rd_pos = 15

\* (d - 50) * 15 / 350 rounded to the nearest integer, clamped into 0..15
RoundedPosition(d) ==
    LET n == (d - 50) * 15
        r == (2 * n + 350) \div 700
    IN  IF r < 0 THEN 0 ELSE IF r > 15 THEN 15 ELSE r

\* C11: for every distance d in [50,400] the position computed by
\* get_sensor_position equals clamp(round((d - 50) * 15 / 350), 0, 15).
C11_PositionRounded ==
    (rd_pos # -1 /\ rd_ret >= 50 /\ rd_ret <= 400) =>
        rd_pos = RoundedPosition(rd_ret)

(***************************************************************************)
(* get_index: matrix coordinates to strip index                            *)
(***************************************************************************)
MATRIX_WIDTH == 16
MATRIX_HEIGHT == 16
LED_COUNT == MATRIX_WIDTH * MATRIX_HEIGHT

\* mutant: the upper bound of x not tested
get_index_noupper(x, y) ==
    IF x < 0 \/ y < 0 \/ y >= MATRIX_HEIGHT
    THEN -1
    ELSE y * MATRIX_WIDTH + (MATRIX_WIDTH - 1 - x)

\* get_index of part_000: the return of line 121 comes before the zigzag
\* code of lines 123..131, which is never executed
get_index(x, y) ==
    IF x < 0 \/ x >= MATRIX_WIDTH \/ y < 0 \/ y >= MATRIX_HEIGHT
    THEN -1
    ELSE y * MATRIX_WIDTH + (MATRIX_WIDTH - 1 - x)

\* Bound: how far outside the matrix the coordinates given to get_index go
CoordMargin == 2

Coords == (0 - CoordMargin)..(MATRIX_WIDTH - 1 + CoordMargin)

(***************************************************************************)
(* SpecIdx: get_index on every coordinate pair in and round the matrix     *)
(***************************************************************************)
InitIdx ==
    /\ gi_x \in Coords
    /\ gi_y \in Coords
    /\ gi_ret = NoIndexCall
    /\ BootIdle
    /\ GamesIdle
    /\ EncIdle
    /\ StripIdle
    /\ sensor_initialized = FALSE
    /\ SensorIdle
    /\ LoopIdle

\* the call get_index(gi_x, gi_y)
IdxCall ==
    /\ gi_ret = NoIndexCall
    /\ gi_ret' = get_index(gi_x, gi_y)
    /\ UNCHANGED <<gi_x, gi_y>>
    /\ UNCHANGED <<encVars, stripVars, simVars, callVars, loopVars, obsVars, bootVars, gameVars>>

\* the next call, with other arguments
IdxCallAgain ==
    /\ gi_ret # NoIndexCall
    /\ \E x \in Coords, y \in Coords :
          /\ gi_x' = x
          /\ gi_y' = y
          /\ gi_ret' = get_index(x, y)
    /\ UNCHANGED <<encVars, stripVars, simVars, callVars, loopVars, obsVars, bootVars, gameVars>>

NextIdx == IdxCall \/ IdxCallAgain

SpecIdx == InitIdx /\ [][NextIdx]_vars

ValidCell(x, y) == x \in 0..15 /\ y \in 0..15

\* C12: get_index returns -1 whenever x or y is outside 0..15; for valid
\* coordinates it returns a value in 0..255, and two calls with different
\* valid coordinates return different indices.
C12_IndexBijective ==
    [][/\ ~ValidCell(gi_x', gi_y') => gi_ret' = -1
       /\ ValidCell(gi_x', gi_y') => gi_ret' \in 0..255
       /\ (/\ gi_ret # NoIndexCall
           /\ ValidCell(gi_x, gi_y) /\ ValidCell(gi_x', gi_y')
           /\ <<gi_x, gi_y>> # <<gi_x', gi_y'>>)
          => gi_ret' # gi_ret
      ]_vars

\* C12 witness: the cell (0, 15) was mapped to 255, the last index
C12_Witness ==
    /\ gi_x = 0
    /\ gi_y = 15
    /\ gi_ret = 255

\* C13: for even y get_index returns y*16 + (15 - x), for odd y it returns
\* y*16 + x, for all valid x, y.
C13_SerpentineParity ==
    (gi_ret # NoIndexCall /\ ValidCell(gi_x, gi_y)) =>
        gi_ret = IF gi_y % 2 = 0 THEN gi_y * 16 + (15 - gi_x)
                                 ELSE gi_y * 16 + gi_x

(***************************************************************************)
(* The pixel buffer operations of WS2812.c and set_pixel of part_000       *)
(***************************************************************************)
BRIGHTNESS == 50

\* mutant: the index reduced modulo the pixel count instead of tested
SetPixelAt_wrap(px, index, color) ==
    [px EXCEPT ![index % NumPixels] = color]

\* if (strip && index < strip->pixel_count) strip->pixels[index] = color;
SetPixelAt(px, index, color) ==
    IF index < NumPixels THEN [px EXCEPT ![index] = color] ELSE px

\* mutant: the last pixel not readable
GetPixelAt_offbyone(px, index) ==
    IF index < NumPixels - 1 THEN px[index] ELSE Black

\* pixel = {0,0,0}; if (strip && index < strip->pixel_count) pixel = pixels[index];
GetPixelAt(px, index) ==
    IF index < NumPixels THEN px[index] ELSE Black

\* mutant: memset of pixel_count bytes instead of pixel_count pixels
ClearPixels_bytes(px) ==
    [i \in DOMAIN px |->
        [r |-> IF 3 * i < NumPixels THEN 0 ELSE px[i].r,
         g |-> IF 3 * i + 1 < NumPixels THEN 0 ELSE px[i].g,
         b |-> IF 3 * i + 2 < NumPixels THEN 0 ELSE px[i].b]]

\* memset(strip->pixels, 0, strip->pixel_count * sizeof(ws2812_pixel_t));
ClearPixels(px) == [i \in DOMAIN px |-> Black]

\* mutant: the stored colours scaled when the brightness is set
SetBrightness_prescale(px, level) ==
    [pixels |-> [i \in DOMAIN px |->
                    [r |-> ScaleChannel(px[i].r, level),
                     g |-> ScaleChannel(px[i].g, level),
                     b |-> ScaleChannel(px[i].b, level)]],
     brightness |-> level]

\* strip->brightness = brightness;
SetBrightness(px, level) == [pixels |-> px, brightness |-> level]

AnyLit(px) == \E i \in DOMAIN px : px[i] # Black

Called(op, index, x, y, ret) ==
    [op |-> op, index |-> index, x |-> x, y |-> y, ret |-> ret,
     was_lit |-> AnyLit(pixels)]

ShowUntouched == UNCHANGED <<rmt_items, show_result, show_steps, show_ret>>

ws2812_set_brightness(level) ==
    LET st == SetBrightness(pixels, level)
    IN  /\ pixels' = st.pixels
        /\ brightness' = st.brightness
        /\ strip_call' = Called("set_brightness", -1, -1, -1, Black)
        /\ UNCHANGED last_set
        /\ ShowUntouched

ws2812_set_pixel(index, r, g, b) ==
    LET color == [r |-> r, g |-> g, b |-> b]
    IN  /\ pixels' = SetPixelAt(pixels, index, color)
        /\ strip_call' = Called("set_pixel", index, -1, -1, Black)
        /\ last_set' = IF index < NumPixels
                       THEN [last_set EXCEPT ![index] = color] ELSE last_set
        /\ UNCHANGED brightness
        /\ ShowUntouched

ws2812_set_pixel_rgb(index, color) ==
    /\ pixels' = SetPixelAt(pixels, index, color)
    /\ strip_call' = Called("set_pixel_rgb", index, -1, -1, Black)
    /\ last_set' = IF index < NumPixels
                   THEN [last_set EXCEPT ![index] = color] ELSE last_set
    /\ UNCHANGED brightness
    /\ ShowUntouched

ws2812_get_pixel(index) ==
    /\ strip_call' = Called("get_pixel", index, -1, -1, GetPixelAt(pixels, index))
    /\ UNCHANGED <<pixels, brightness, last_set>>
    /\ ShowUntouched

ws2812_clear ==
    /\ pixels' = ClearPixels(pixels)
    /\ strip_call' = Called("clear", -1, -1, -1, Black)
    /\ last_set' = [i \in DOMAIN last_set |-> Black]
    /\ UNCHANGED brightness
    /\ ShowUntouched

\* set_pixel of part_000: idx = get_index(x, y); if (idx >= 0 && idx <
\* LED_COUNT) ws2812_set_pixel(strip, idx, r, g, b);
set_pixel(x, y, r, g, b) ==
    LET idx == get_index(x, y)
        color == [r |-> r, g |-> g, b |-> b]
        passed == idx >= 0 /\ idx < LED_COUNT
    IN  /\ pixels' = IF passed THEN SetPixelAt(pixels, U16(idx), color)
                     ELSE pixels
        /\ strip_call' = Called("set_pixel_xy", -1, x, y, Black)
        /\ last_set' = IF passed /\ idx < NumPixels
                       THEN [last_set EXCEPT ![idx] = color] ELSE last_set
        /\ UNCHANGED brightness
        /\ ShowUntouched

\* show_display of part_000: ws2812_show(strip);
show_display(alloc_ok) ==
    /\ ws2812_show(alloc_ok)
    /\ strip_call' = Called("show", -1, -1, -1, Black)
    /\ UNCHANGED last_set

(***************************************************************************)
(* SpecStrip: sequences of buffer operations on a strip of NumPixels       *)
(***************************************************************************)
\* colours the modelled callers write
WriteColours ==
    { [r |-> 255, g |-> 0,  b |-> 0],
      [r |-> 20,  g |-> 77, b |-> 254] }

\* indices given to the strip: the first and the last pixel, the first index
\* past the end, and the largest uint16_t
StripIndices == {0, NumPixels - 1, NumPixels, 65535}

\* coordinates given to set_pixel: the cells of indices 0, 1 and 255, and
\* coordinates off each side of the matrix
XYInputs ==
    { <<15, 0>>, <<14, 0>>, <<0, 15>>,
      <<-1, 0>>, <<16, 0>>, <<0, -1>>, <<0, 16>> }

BrightnessLevels == {BRIGHTNESS, 255}

OthersUntouched ==
    UNCHANGED <<encVars, idxVars, simVars, callVars, loopVars, obsVars, bootVars, gameVars>>

InitStrip ==
    /\ IdxIdle
    /\ BootIdle
    /\ GamesIdle
    /\ EncIdle
    /\ StripIdle
    /\ sensor_initialized = FALSE
    /\ SensorIdle
    /\ LoopIdle

CallSetBrightness ==
    /\ \E level \in BrightnessLevels : ws2812_set_brightness(level)
    /\ OthersUntouched

CallSetPixel ==
    /\ \E index \in StripIndices, c \in WriteColours :
          ws2812_set_pixel(index, c.r, c.g, c.b)
    /\ OthersUntouched

CallSetPixelRgb ==
    /\ \E index \in StripIndices, c \in WriteColours :
          ws2812_set_pixel_rgb(index, c)
    /\ OthersUntouched

CallGetPixel ==
    /\ \E index \in StripIndices : ws2812_get_pixel(index)
    /\ OthersUntouched

CallClear ==
    /\ ws2812_clear
    /\ OthersUntouched

CallSetPixelXY ==
    /\ \E xy \in XYInputs, c \in WriteColours :
          set_pixel(xy[1], xy[2], c.r, c.g, c.b)
    /\ OthersUntouched

CallShowDisplay ==
    /\ \E alloc_ok \in BOOLEAN : show_display(alloc_ok)
    /\ OthersUntouched

NextStrip ==
    \/ CallSetBrightness
    \/ CallSetPixel
    \/ CallSetPixelRgb
    \/ CallGetPixel
    \/ CallClear
    \/ CallSetPixelXY
    \/ CallShowDisplay

SpecStrip == InitStrip /\ [][NextStrip]_vars

\* the arguments and the result of the call that made the step
LastOp == strip_call'.op
LastIndex == strip_call'.index

BufferKept == pixels' = pixels /\ brightness' = brightness

\* C14: ws2812_set_pixel and ws2812_set_pixel_rgb with index >= pixel_count,
\* and set_pixel with x or y outside 0..15, change no pixel of the buffer
\* and not the brightness.
C14_OutOfRangeNoOp ==
    [][/\ (LastOp \in {"set_pixel", "set_pixel_rgb"} /\ LastIndex >= NumPixels)
          => BufferKept
       /\ (LastOp = "set_pixel_xy"
             /\ ~(strip_call'.x \in 0..15 /\ strip_call'.y \in 0..15))
          => BufferKept
      ]_vars

\* C14 witness: a set one past the end of a lit buffer left it as it was
C14_Witness ==
    /\ strip_call.op = "set_pixel"
    /\ strip_call.index = NumPixels
    /\ strip_call.was_lit
    /\ pixels = last_set
    /\ pixels[NumPixels - 1] # Black

\* C15: ws2812_get_pixel(i) returns, for i < pixel_count, the colour most
\* recently set at i (black if none since init or the last clear) and, for
\* i >= pixel_count, (0,0,0); a set at index i changes no pixel other than i.
C15_GetReturnsLastSet ==
    [][/\ LastOp = "get_pixel" =>
             strip_call'.ret = IF LastIndex < NumPixels
                               THEN last_set[LastIndex]
                               ELSE [r |-> 0, g |-> 0, b |-> 0]
       /\ LastOp \in {"set_pixel", "set_pixel_rgb"} =>
             \A j \in 0..(NumPixels - 1) :
                j # LastIndex => pixels'[j] = pixels[j]
      ]_vars

\* C15 witness: after sets, a brightness change and a show, pixel 1 read
\* back as the colour set there
C15_Witness ==
    /\ strip_call.op = "get_pixel"
    /\ strip_call.index = 1
    /\ strip_call.ret = [r |-> 20, g |-> 77, b |-> 254]
    /\ pixels[0] = [r |-> 255, g |-> 0, b |-> 0]
    /\ brightness = 50
    /\ show_result = "sent"

\* C16: ws2812_set_brightness changes only the stored brightness, ws2812_show
\* changes neither pixels nor brightness, and every transmitted train is
\* scaled from the colours as they were set.
C16_BrightnessAtTransmitOnly ==
    [][/\ LastOp = "set_brightness" =>
             /\ pixels' = pixels
             /\ rmt_items' = rmt_items
       /\ LastOp = "show" => BufferKept
       /\ (LastOp = "show" /\ show_result' = "sent") =>
             \A i \in 0..(NumPixels - 1) :
                /\ TrainByte(rmt_items', 3 * i)
                      = (last_set[i].g * brightness') \div 255
                /\ TrainByte(rmt_items', 3 * i + 1)
                      = (last_set[i].r * brightness') \div 255
                /\ TrainByte(rmt_items', 3 * i + 2)
                      = (last_set[i].b * brightness') \div 255
      ]_vars

\* C16 witness: (255,0,0), still stored as set, went out as (0,50,0) under
\* brightness 50
C16_Witness ==
    /\ strip_call.op = "show"
    /\ show_result = "sent"
    /\ brightness = 50
    /\ pixels[0] = [r |-> 255, g |-> 0, b |-> 0]
    /\ TrainByte(rmt_items, 1) = 50
    /\ TrainByte(rmt_items, 0) = 0

\* C17: ws2812_clear sets every pixel 0..pixel_count-1 to (0,0,0) and leaves
\* the brightness and the pixel count unchanged.
C17_ClearBlanksAll ==
    [][LastOp = "clear" =>
          /\ \A i \in 0..(NumPixels - 1) :
                pixels'[i] = [r |-> 0, g |-> 0, b |-> 0]
          /\ DOMAIN pixels' = DOMAIN pixels
          /\ brightness' = brightness
      ]_vars

\* C17 witness: a lit buffer was cleared under brightness 50
C17_Witness ==
    /\ strip_call.op = "clear"
    /\ strip_call.was_lit
    /\ \A i \in 0..(NumPixels - 1) : pixels[i] = Black
    /\ brightness = 50

\* C18: when the pulse-train buffer cannot be allocated nothing is handed to
\* the peripheral and pixels and brightness are unchanged; the next
\* ws2812_show that gets its memory transmits the whole frame.
C18_AllocFailureSendsNothing ==
    [][/\ (LastOp = "show" /\ show_result' = "nomem") =>
             /\ rmt_items' = << >>
             /\ \A k \in 1..Len(show_steps') :
                   show_steps'[k] # "rmt_write_items"
             /\ BufferKept
       /\ (show_result = "nomem" /\ LastOp = "show" /\ show_result' = "sent") =>
             /\ Len(rmt_items') = 24 * NumPixels
             /\ \A i \in 0..(NumPixels - 1) :
                   TrainByte(rmt_items', 3 * i + 1)
                      = (pixels[i].r * brightness) \div 255
      ]_vars

\* C18 witness: a show of a lit buffer failed to get its memory
C18_Witness ==
    /\ strip_call.op = "show"
    /\ strip_call.was_lit
    /\ show_result = "nomem"
    /\ rmt_items = << >>

\* C19: the caller of ws2812_show / show_display can tell a frame that was
\* transmitted from one skipped for want of memory: what the call gives
\* back differs between the two.
C19_AllocFailureReported ==
    [][(/\ LastOp = "show"
        /\ show_result \in {"sent", "nomem"}
        /\ show_result' \in {"sent", "nomem"}
        /\ show_result' # show_result)
       => show_ret' # show_ret
      ]_vars

\* step a comes before step b in the sequence s
Before(s, a, b) ==
    \E i \in 1..Len(s), j \in 1..Len(s) : i < j /\ s[i] = a /\ s[j] = b

MIN_SELECTION_DISTANCE == 100
MAX_SELECTION_DISTANCE == 350
SELECTION_HOLD_TIME == 5000
TICK_MS == 50
TRANSITION_MS == 1500
\* show_game_over_screen: 40 frames of 50 ms and 18 fade steps of 30 ms
GAME_OVER_MS == 2540

\* Bound: duration of a slow loop iteration (sensor reads time out), ms
SlowTick == 2500
\* Bound: number of loop iterations explored
MaxTicks == 7

\* ---- the millisecond clock --------------------------------------------
\* A time is <<h, l>> with value h * 65536 + l and 0 <= l < 65536.
AddMs(t, d) == LET sum == t[2] + d IN <<t[1] + (sum \div 65536), sum % 65536>>

\* ms from b to a, for times less than 2^31 ms apart
DiffMs(a, b) == (a[1] - b[1]) * 65536 + (a[2] - b[2])

\* mutant: the clock kept in 16 bits
EspTimerMs_16bit(t) == <<0, t[2]>>

\* (uint32_t)(esp_timer_get_time() / 1000)
EspTimerMs(t) == <<t[1] % 65536, t[2]>>

\* mutant: no elapsed time when the counter reads less than the start time
U32Sub_clamped(a, b) ==
    IF a[1] < b[1] \/ (a[1] = b[1] /\ a[2] < b[2]) THEN <<0, 0>>
    ELSE LET l == a[2] - b[2]
             borrow == IF l < 0 THEN 1 ELSE 0
         IN  <<a[1] - b[1] - borrow, l % 65536>>

\* uint32_t elapsed = current_time - selection_start_time;
U32Sub(a, b) ==
    LET l == a[2] - b[2]
        borrow == IF l < 0 THEN 1 ELSE 0
    IN  <<(a[1] - b[1] - borrow) % 65536, l % 65536>>

\* mutant: elapsed > SELECTION_HOLD_TIME
HeldLongEnough_strict(elapsed) ==
    elapsed[1] > 0 \/ elapsed[2] > SELECTION_HOLD_TIME

\* if (elapsed >= SELECTION_HOLD_TIME)
HeldLongEnough(elapsed) ==
    elapsed[1] > 0 \/ elapsed[2] >= SELECTION_HOLD_TIME

\* mutant: the upper limit left out
InSelectionRange_nomax(d) == d >= MIN_SELECTION_DISTANCE

\* if (sensor_distance >= MIN_SELECTION_DISTANCE && sensor_distance <= MAX_SELECTION_DISTANCE)
InSelectionRange(d) ==
    d >= MIN_SELECTION_DISTANCE /\ d <= MAX_SELECTION_DISTANCE

\* int new_selection = get_sensor_position() / 4; if (new_selection > 3) new_selection = 3;
Quadrant(pos) == LET q == CDiv(pos, 4) IN IF q > 3 THEN 3 ELSE q

\* mutant: only a larger quadrant counts as a change
SelectionChanged_up(new_selection, last) == new_selection > last

\* if (new_selection != last_stable_selection)
SelectionChanged(new_selection, last) == new_selection # last

\* mutant: cases 1 and 2 exchanged
ModeOfSelection_swapped(sel, mode) ==
    CASE sel = 0 -> "PONG"
      [] sel = 1 -> "CATCH"
      [] sel = 2 -> "FLAPPY"
      [] sel = 3 -> "INVADERS"
      [] OTHER -> mode

\* switch (menu_selection) { case 0: current_mode = PONG; ... } (no default)
ModeOfSelection(sel, mode) ==
    CASE sel = 0 -> "PONG"
      [] sel = 1 -> "FLAPPY"
      [] sel = 2 -> "CATCH"
      [] sel = 3 -> "INVADERS"
      [] OTHER -> mode

Zero32 == <<0, 0>>

\* mutant: the candidate and its start time kept through the confirmation
MenuCase_keephold(rd1, rd2, now) ==
    IF InSelectionRange(rd1.dist)
    THEN LET new_selection == Quadrant(PositionOf(rd2.dist))
         IN  IF SelectionChanged(new_selection, last_stable_selection)
             THEN [mode |-> current_mode, sel |-> new_selection,
                   stable |-> new_selection, start |-> EspTimerMs(now),
                   extra |-> 0, ev |-> "started", reads |-> 2,
                   q |-> new_selection]
             ELSE LET elapsed == U32Sub(EspTimerMs(now), selection_start_time)
                  IN  IF HeldLongEnough(elapsed)
                      THEN [mode |-> ModeOfSelection(menu_selection, current_mode),
                            sel |-> menu_selection,
                            stable |-> last_stable_selection,
                            start |-> selection_start_time,
                            extra |-> TRANSITION_MS, ev |-> "confirmed",
                            reads |-> 2, q |-> new_selection]
                      ELSE [mode |-> current_mode, sel |-> menu_selection,
                            stable |-> last_stable_selection,
                            start |-> selection_start_time,
                            extra |-> 0, ev |-> "holding", reads |-> 2,
                            q |-> new_selection]
    ELSE [mode |-> current_mode, sel |-> -1, stable |-> -1, start |-> Zero32,
          extra |-> 0, ev |-> "out_of_range", reads |-> 1, q |-> -1]

\* The MENU case of one loop iteration. rd1 is the read of line 973, rd2
\* the read inside get_sensor_position (made only when rd1 is in range), now
\* the timer value. Returns the new globals, the time the iteration spends
\* in animations, and what it did.
MenuCase(rd1, rd2, now) ==
    IF InSelectionRange(rd1.dist)
    THEN LET new_selection == Quadrant(PositionOf(rd2.dist))
         IN  IF SelectionChanged(new_selection, last_stable_selection)
             THEN [mode |-> current_mode, sel |-> new_selection,
                   stable |-> new_selection, start |-> EspTimerMs(now),
                   extra |-> 0, ev |-> "started", reads |-> 2,
                   q |-> new_selection]
             ELSE LET elapsed == U32Sub(EspTimerMs(now), selection_start_time)
                  IN  IF HeldLongEnough(elapsed)
                      THEN [mode |-> ModeOfSelection(menu_selection, current_mode),
                            sel |-> -1, stable |-> -1, start |-> Zero32,
                            extra |-> TRANSITION_MS, ev |-> "confirmed",
                            reads |-> 2, q |-> new_selection]
                      ELSE [mode |-> current_mode, sel |-> menu_selection,
                            stable |-> last_stable_selection,
                            start |-> selection_start_time,
                            extra |-> 0, ev |-> "holding", reads |-> 2,
                            q |-> new_selection]
    ELSE [mode |-> current_mode, sel |-> -1, stable |-> -1, start |-> Zero32,
          extra |-> 0, ev |-> "out_of_range", reads |-> 1, q |-> -1]

\* mutant: a finished game hands over to Pong
GameCase_topong(over) ==
    [mode |-> IF over THEN "PONG" ELSE current_mode,
     sel |-> menu_selection, stable |-> last_stable_selection,
     start |-> selection_start_time,
     extra |-> IF over THEN GAME_OVER_MS ELSE 0,
     ev |-> IF over THEN "game_over" ELSE "game",
     reads |-> IF ~over \/ current_mode \in {"PONG", "INVADERS"} THEN 2 ELSE 1,
     q |-> -1]

\* The game cases of one loop iteration, with the games' own state left out:
\* over says whether the game takes its game-over path in this iteration.
\* run_pong and run_invaders read the sensor before they decide; run_flappy
\* and run_catch return to the menu before reading it.
GameCase(over) ==
    [mode |-> IF over THEN "MENU" ELSE current_mode,
     sel |-> menu_selection, stable |-> last_stable_selection,
     start |-> selection_start_time,
     extra |-> IF over THEN GAME_OVER_MS ELSE 0,
     ev |-> IF over THEN "game_over" ELSE "game",
     reads |-> IF ~over \/ current_mode \in {"PONG", "INVADERS"} THEN 2 ELSE 1,
     q |-> -1]

\* raw readings offered to the loop: quadrants 0 and 2, and one out of range;
\* the fallback generator supplies the readings of quadrants 1 and 2
LoopRawVals == {120, 250, 400}

DtSet == {TICK_MS, SlowTick}

\* timer values at which the loop is entered: after the start-up tests, and
\* shortly before the 32-bit millisecond counter wraps
StartTimes == { <<0, 13000>>, <<65535, 65536 - 2500>> }

\* floor(position(d) / 4), written out
QuadrantOfDistance(d) ==
    LET p == ((d - 50) * 15) \div 350
        q == p \div 4
    IN  IF q > 3 THEN 3 ELSE q

\* what the observations become: r is what the iteration did, d1 and d2 the
\* samples it read, now the timer value
Observe(r, d1, d2, now) ==
    LET in_range == current_mode = "MENU" /\ d1 >= 100 /\ d1 <= 350
        q == QuadrantOfDistance(d2)
    IN  /\ ev' = r.ev
        /\ tk_d2' = IF in_range THEN d2 ELSE -1
        /\ tk_q' = r.q
        /\ tk_had_cand' = (current_mode = "MENU" /\ last_stable_selection # -1)
        /\ q_run' = IF in_range
                    THEN IF q_run.q = q THEN q_run ELSE [q |-> q, since |-> now]
                    ELSE NoQRun
        /\ inrange_since' = IF in_range
                            THEN IF inrange_since = NoTime THEN now
                                 ELSE inrange_since
                            ELSE NoTime
        /\ const_run' =
              IF in_range /\ d2 = d1
              THEN IF last_stable_selection = -1
                   THEN [val |-> d1, since |-> now]
                   ELSE IF const_run.val = d1 THEN const_run ELSE NoRun
              ELSE NoRun

\* one iteration of while (1): r is the result of the mode's case
Iterate(r, rd1, rd2, dt) ==
    LET last == IF r.reads = 2 THEN rd2 ELSE rd1
    IN  /\ sensor_distance' = rd1.dist
        /\ current_mode' = r.mode
        /\ menu_selection' = r.sel
        /\ last_stable_selection' = r.stable
        /\ selection_start_time' = r.start
        /\ sim_dist' = last.sim_dist
        /\ dir' = last.dir
        /\ hw_failures' = hw_failures + FailuresAfter(rd1)
                            + (IF r.reads = 2 THEN FailuresAfter(rd2) ELSE 0)
        /\ timer' = AddMs(timer, dt + r.extra)
        /\ ticks' = ticks + 1
        /\ Observe(r, rd1.dist, rd2.dist, timer)
        /\ UNCHANGED <<sensor_initialized, encVars, idxVars, stripVars, callVars, bootVars, gameVars>>

\* the hardware outcomes of the two reads of an iteration; the second is
\* offered only after a first that leaves a failure to spare
SecondOutcomes(o1) ==
    IF sensor_initialized
    THEN {HwOk(v) : v \in LoopRawVals}
            \cup (IF o1.ok /\ hw_failures < MaxReadFailures
                  THEN {HwFail} ELSE {})
    ELSE {HwFail}

MenuTick ==
    /\ current_mode = "MENU"
    /\ ticks < MaxTicks
    /\ \E dt \in DtSet :
       \E o1 \in HwOutcomes(sensor_initialized, LoopRawVals) :
          LET rd1 == ReadTof(sensor_initialized, sim_dist, dir, o1)
          IN  \E o2 \in IF InSelectionRange(rd1.dist)
                        THEN SecondOutcomes(o1) ELSE {o1} :
                 LET rd2 == ReadTof(sensor_initialized, rd1.sim_dist, rd1.dir, o2)
                 IN  Iterate(MenuCase(rd1, rd2, timer), rd1, rd2, dt)

GameTick ==
    /\ current_mode # "MENU"
    /\ ticks < MaxTicks
    /\ \E dt \in DtSet :
       \E over \in BOOLEAN :
       \E o1 \in HwOutcomes(sensor_initialized, LoopRawVals) :
          LET rd1 == ReadTof(sensor_initialized, sim_dist, dir, o1)
              r == GameCase(over)
          IN  \E o2 \in IF r.reads = 2 THEN SecondOutcomes(o1) ELSE {o1} :
                 LET rd2 == ReadTof(sensor_initialized, rd1.sim_dist, rd1.dir, o2)
                 IN  Iterate(r, rd1, rd2, dt)

Init ==
    /\ IdxIdle
    /\ BootIdle
    /\ GamesIdle
    /\ sensor_initialized \in BOOLEAN
    /\ SensorIdle
    /\ EncIdle
    /\ StripIdle
    /\ current_mode = "MENU"
    /\ menu_selection = -1
    /\ last_stable_selection = -1
    /\ selection_start_time = Zero32
    /\ sensor_distance = 200
    /\ timer \in StartTimes
    /\ ticks = 0
    /\ ev = "boot"
    /\ tk_d2 = -1
    /\ tk_q = -1
    /\ tk_had_cand = FALSE
    /\ q_run = NoQRun
    /\ inrange_since = NoTime
    /\ const_run = NoRun

Next == MenuTick \/ GameTick

Spec == Init /\ [][Next]_vars

(***************************************************************************)
(* Properties of the selection state machine                               *)
(***************************************************************************)
\* a loop iteration
Iteration == ticks' # ticks

InRangeSample(d) == d >= 100 /\ d <= 350

IdleSelection(sel, stable, start) ==
    sel = -1 /\ stable = -1 /\ start = <<0, 0>>

\* the low 32 bits of a timer value
Low32(t) == <<t[1] % 65536, t[2]>>

C6_QuadrantFromCheckedSample ==
    [][(/\ Iteration
        /\ current_mode = "MENU"
        /\ InRangeSample(sensor_distance'))
       => /\ tk_q' = QuadrantOfDistance(sensor_distance')
          /\ InRangeSample(tk_d2')
      ]_vars

GameOfQuadrant(q) ==
    CASE q = 0 -> "PONG"
      [] q = 1 -> "FLAPPY"
      [] q = 2 -> "CATCH"
      [] q = 3 -> "INVADERS"

\* C7: in-range samples of one quadrant spanning at least 5000 ms yield one
\* confirmation: in that iteration current_mode becomes the game of the held
\* quadrant and the selection state is reset to Idle, so the hold does not
\* confirm again.
C7_ConfirmStartsGame ==
    [][Iteration =>
        /\ (/\ current_mode = "MENU"
            /\ InRangeSample(sensor_distance')
            /\ q_run.q = QuadrantOfDistance(tk_d2')
            /\ DiffMs(timer, q_run.since) >= 5000)
           => ev' = "confirmed"
        /\ ev' = "confirmed" =>
              /\ q_run.q \in 0..3
              /\ current_mode' = GameOfQuadrant(q_run.q)
              /\ IdleSelection(menu_selection', last_stable_selection',
                               selection_start_time')
              /\ ev # "confirmed"
      ]_vars

\* C7 witness: quadrant 2 was held and CATCH entered with the machine Idle
C7_Witness ==
    /\ ev = "confirmed"
    /\ tk_q = 2
    /\ current_mode = "CATCH"
    /\ IdleSelection(menu_selection, last_stable_selection, selection_start_time)

\* C25: a failed sensor initialisation or a failed read does not reach the
\* game: the read returns the next value of the fallback generator and the
\* loop goes on to its next iteration, changing mode only by a confirmed
\* selection or a finished game.
C25_SensorFailureRecovered ==
    [][Iteration =>
        /\ ticks' = ticks + 1
        /\ current_mode' \in {"MENU", "PONG", "FLAPPY", "CATCH", "INVADERS"}
        /\ current_mode' # current_mode => ev' \in {"confirmed", "game_over"}
        /\ ~sensor_initialized =>
              /\ sensor_distance' = sim_dist + 5 * dir
              /\ sim_dist' # sim_dist
        /\ (sensor_initialized /\ hw_failures' > hw_failures) =>
              /\ sim_dist' = sim_dist + 5 * dir
              /\ \/ sensor_distance' = sim_dist'
                 \/ tk_d2' = sim_dist'
                 \/ current_mode # "MENU"
      ]_vars

\* C25 witness: the first read of an initialised sensor failed, the loop took
\* the generator's 205 and went on
C25_Witness ==
    /\ sensor_initialized
    /\ hw_failures = 1
    /\ sim_dist = 205
    /\ sensor_distance = 205
    /\ ticks >= 1
    /\ current_mode = "MENU"

\* the game the README's menu table gives for a distance inside a band
BandGame(d) ==
    CASE d > 0 /\ d < 100 -> "PONG"
      [] d > 100 /\ d < 200 -> "FLAPPY"
      [] d > 200 /\ d < 300 -> "CATCH"
      [] d > 300 /\ d < 400 -> "INVADERS"
      [] OTHER -> "MENU"

\* C26: the menu selects by 100 mm bands: a hand held at a distance inside
\* 0-100 mm starts Pong, inside 100-200 mm Flappy Bird, inside 200-300 mm
\* Catch, inside 300-400 mm Space Invaders.
C26_MenuBandsAsDocumented ==
    (ev = "confirmed" /\ const_run # NoRun) =>
        current_mode = BandGame(const_run.val)

(***************************************************************************)
(* SpecBoot: app_main, init_hardware and the creation of game_task.  A     *)
(* call of ws2812_show is two steps, the hand-over to the peripheral and   *)
(* the return after rmt_wait_tx_done, so that two calls can overlap.       *)
(***************************************************************************)
\* Bound: transmissions after which game_task starts no further one
MaxTx == 9

\* mutant: the task created before the mapping test
AppMainOrder_taskfirst ==
    <<"init_hardware", "clear_display", "show_display", "xTaskCreate",
      "test_matrix_mapping", "return">>

\* the statements of app_main, in order
AppMainOrder ==
    <<"init_hardware", "clear_display", "show_display",
      "test_matrix_mapping", "xTaskCreate", "return">>

\* show_display calls of test_matrix_mapping
TestShows == 6

\* what can happen inside ws2812_init
InitOutcomes ==
    {"ok", "nomem_strip", "nomem_pixels", "rmt_config", "rmt_driver_install"}

RmtErrors == {"rmt_config", "rmt_driver_install"}

AllocErrors == {"nomem_strip", "nomem_pixels"}

\* mutant: the strip struct not freed when the pixel buffer cannot be had
ws2812_init_leak(outcome) ==
    [strip |-> IF outcome = "ok" THEN "ok" ELSE "NULL",
     proc |-> IF outcome \in RmtErrors THEN "aborted" ELSE "running",
     heap |-> CASE outcome = "nomem_strip" -> {}
                [] outcome = "nomem_pixels" -> {"strip"}
                [] OTHER -> {"strip", "pixels"},
     rmt |-> CASE outcome = "ok" -> "installed"
               [] outcome = "rmt_driver_install" -> "configured"
               [] OTHER -> "none"]

\* ws2812_init: NULL after a failed allocation (the struct freed again when
\* the pixel buffer fails), abort() by ESP_ERROR_CHECK after an error of
\* rmt_config or rmt_driver_install, else the strip
ws2812_init(outcome) ==
    [strip |-> IF outcome = "ok" THEN "ok" ELSE "NULL",
     proc |-> IF outcome \in RmtErrors THEN "aborted" ELSE "running",
     heap |-> CASE outcome \in AllocErrors -> {}
                [] OTHER -> {"strip", "pixels"},
     rmt |-> CASE outcome = "ok" -> "installed"
               [] outcome = "rmt_driver_install" -> "configured"
               [] OTHER -> "none"]

\* mutant: the call of ws2812_set_brightness left out
init_hardware_nobrightness(outcome) ==
    LET r == ws2812_init(outcome)
    IN  [init |-> r, set_brightness |-> FALSE,
         init_tof_sensor |-> r.proc = "running" /\ r.strip = "ok"]

\* init_hardware: strip = ws2812_init(...); on NULL log and return, else
\* ws2812_set_brightness(strip, BRIGHTNESS) and init_tof_sensor()
init_hardware(outcome) ==
    LET r == ws2812_init(outcome)
    IN  [init |-> r,
         set_brightness |-> r.proc = "running" /\ r.strip = "ok",
         init_tof_sensor |-> r.proc = "running" /\ r.strip = "ok"]

MainStep ==
    IF main_pc \in 1..Len(AppMainOrder) THEN AppMainOrder[main_pc] ELSE "done"

AtStep(name) ==
    /\ proc = "running"
    /\ MainStep = name
    /\ "app_main" \notin in_flight

\* the test every strip operation begins with: if (strip ...)
OnStrip(op) == IF strip = "ok" THEN op ELSE UNCHANGED stripVars

\* a frame as the callers draw it: clear_display, then set_pixel
DrawFrame(index, color) ==
    /\ pixels' = SetPixelAt(ClearPixels(pixels), index, color)
    /\ last_set' = SetPixelAt(ClearPixels(last_set), index, color)
    /\ strip_call' = Called("set_pixel", index, -1, -1, Black)
    /\ UNCHANGED brightness
    /\ ShowUntouched

\* ws2812_show as far as rmt_write_items: nothing for a NULL strip, the log
\* and return after a failed malloc, else the transmission begins
BeginShow(task, alloc_ok) ==
    /\ OnStrip(show_display(alloc_ok))
    /\ IF strip = "ok" /\ alloc_ok
       THEN /\ in_flight' = in_flight \cup {task}
            /\ tx_count' = tx_count + 1
       ELSE UNCHANGED <<in_flight, tx_count>>

\* rmt_wait_tx_done returned, free, vTaskDelay, return
EndShow(task) ==
    /\ in_flight' = in_flight \ {task}
    /\ UNCHANGED <<stripVars, tx_count>>

BootOthers == UNCHANGED <<encVars, idxVars, callVars, loopVars, obsVars,
                          gameVars, sim_dist, dir, hw_failures>>

InitBoot ==
    /\ gi_x = 0
    /\ gi_y = 0
    /\ gi_ret = NoIndexCall
    /\ EncIdle
    /\ StripIdle
    /\ sensor_initialized = FALSE
    /\ SensorIdle
    /\ LoopIdle
    /\ proc = "running"
    /\ strip = "NULL"
    /\ init_err = "none"
    /\ heap = {}
    /\ rmt_state = "none"
    /\ tm_drawn = FALSE
    /\ main_pc = 1
    /\ tm_shows = 0
    /\ task_pc = "none"
    /\ in_flight = {}
    /\ tx_count = 0
    /\ GamesIdle

AppInitHardware ==
    /\ AtStep("init_hardware")
    /\ \E outcome \in InitOutcomes :
         LET h == init_hardware(outcome)
             r == h.init
         IN  /\ init_err' = outcome
             /\ proc' = r.proc
             /\ heap' = r.heap
             /\ rmt_state' = r.rmt
             /\ strip' = IF r.proc = "running" THEN r.strip ELSE strip
             /\ main_pc' = IF r.proc = "running" THEN main_pc + 1 ELSE main_pc
             /\ IF h.set_brightness
                THEN ws2812_set_brightness(BRIGHTNESS)
                ELSE UNCHANGED stripVars
             /\ IF h.init_tof_sensor
                THEN sensor_initialized' \in BOOLEAN
                ELSE UNCHANGED sensor_initialized
    /\ UNCHANGED <<tm_drawn, tm_shows, task_pc, in_flight, tx_count>>
    /\ BootOthers

AppClearDisplay ==
    /\ AtStep("clear_display")
    /\ OnStrip(ws2812_clear)
    /\ main_pc' = main_pc + 1
    /\ UNCHANGED <<proc, strip, init_err, heap, rmt_state, tm_drawn, tm_shows,
                   task_pc, in_flight, tx_count, sensor_initialized>>
    /\ BootOthers

\* where app_main is after a show_display has returned
MainAfterShow ==
    IF MainStep = "show_display" THEN [pc |-> main_pc + 1, tm |-> tm_shows]
    ELSE IF tm_shows + 1 = TestShows
         THEN [pc |-> main_pc + 1, tm |-> tm_shows + 1]
         ELSE [pc |-> main_pc, tm |-> tm_shows + 1]

\* test_matrix_mapping draws the pattern of its next show_display
AppTestDraw ==
    /\ AtStep("test_matrix_mapping")
    /\ ~tm_drawn
    /\ \E index \in 0..(NumPixels - 1), color \in WriteColours :
          OnStrip(DrawFrame(index, color))
    /\ tm_drawn' = TRUE
    /\ UNCHANGED <<proc, strip, init_err, heap, rmt_state, main_pc, tm_shows,
                   task_pc, in_flight, tx_count, sensor_initialized>>
    /\ BootOthers

\* show_display of app_main (line 1104) and of test_matrix_mapping
MainShowBegin ==
    /\ \/ AtStep("show_display")
       \/ AtStep("test_matrix_mapping") /\ tm_drawn
    /\ \E alloc_ok \in BOOLEAN : BeginShow("app_main", alloc_ok)
    /\ IF "app_main" \in in_flight'
       THEN UNCHANGED <<main_pc, tm_shows, tm_drawn>>
       ELSE /\ main_pc' = MainAfterShow.pc
            /\ tm_shows' = MainAfterShow.tm
            /\ tm_drawn' = FALSE
    /\ UNCHANGED <<proc, strip, init_err, heap, rmt_state, task_pc,
                   sensor_initialized>>
    /\ BootOthers

MainShowEnd ==
    /\ proc = "running"
    /\ "app_main" \in in_flight
    /\ EndShow("app_main")
    /\ main_pc' = MainAfterShow.pc
    /\ tm_shows' = MainAfterShow.tm
    /\ tm_drawn' = FALSE
    /\ UNCHANGED <<proc, strip, init_err, heap, rmt_state, task_pc,
                   sensor_initialized>>
    /\ BootOthers

\* xTaskCreate(game_task, ...)
AppTaskCreate ==
    /\ AtStep("xTaskCreate")
    /\ task_pc' = "iterate"
    /\ main_pc' = main_pc + 1
    /\ UNCHANGED <<proc, strip, init_err, heap, rmt_state, tm_drawn, tm_shows,
                   in_flight, tx_count, stripVars, sensor_initialized>>
    /\ BootOthers

AppReturn ==
    /\ AtStep("return")
    /\ main_pc' = main_pc + 1
    /\ UNCHANGED <<proc, strip, init_err, heap, rmt_state, tm_drawn, tm_shows,
                   task_pc, in_flight, tx_count, stripVars,
                   sensor_initialized>>
    /\ BootOthers

\* game_task: the body of one loop iteration up to its show_display: the
\* mode's case draws its frame (the iteration's selection logic is the
\* subject of Spec, the games' that of SpecGames)
TaskIterate ==
    /\ proc = "running"
    /\ task_pc = "iterate"
    /\ \E index \in 0..(NumPixels - 1), color \in WriteColours :
          OnStrip(DrawFrame(index, color))
    /\ task_pc' = "show_display"
    /\ UNCHANGED <<proc, strip, init_err, heap, rmt_state, tm_drawn, main_pc,
                   tm_shows, in_flight, tx_count, sensor_initialized>>
    /\ BootOthers

TaskShowBegin ==
    /\ proc = "running"
    /\ task_pc = "show_display"
    /\ tx_count < MaxTx
    /\ \E alloc_ok \in BOOLEAN : BeginShow("game_task", alloc_ok)
    /\ task_pc' = IF "game_task" \in in_flight' THEN "in_show"
                  ELSE "vTaskDelay"
    /\ UNCHANGED <<proc, strip, init_err, heap, rmt_state, tm_drawn, main_pc,
                   tm_shows, sensor_initialized>>
    /\ BootOthers

TaskShowEnd ==
    /\ proc = "running"
    /\ task_pc = "in_show"
    /\ EndShow("game_task")
    /\ task_pc' = "vTaskDelay"
    /\ UNCHANGED <<proc, strip, init_err, heap, rmt_state, tm_drawn, main_pc,
                   tm_shows, sensor_initialized>>
    /\ BootOthers

\* vTaskDelay(pdMS_TO_TICKS(50)) at the end of the iteration
TaskDelay ==
    /\ proc = "running"
    /\ task_pc = "vTaskDelay"
    /\ task_pc' = "iterate"
    /\ UNCHANGED <<proc, strip, init_err, heap, rmt_state, tm_drawn, main_pc,
                   tm_shows, in_flight, tx_count, stripVars,
                   sensor_initialized>>
    /\ BootOthers

NextBoot ==
    \/ AppInitHardware
    \/ AppClearDisplay
    \/ AppTestDraw
    \/ MainShowBegin
    \/ MainShowEnd
    \/ AppTaskCreate
    \/ AppReturn
    \/ TaskIterate
    \/ TaskShowBegin
    \/ TaskShowEnd
    \/ TaskDelay

SpecBoot == InitBoot /\ [][NextBoot]_vars

DisplaySteps == {"clear_display", "show_display", "test_matrix_mapping"}

\* C21: at most one transmission is in flight at any time: once game_task
\* exists app_main is past every statement that uses the display and is not
\* inside ws2812_show, so only game_task transmits.
C21_OneTransmissionInFlight ==
    /\ Cardinality(in_flight) <= 1
    /\ task_pc # "none" =>
          /\ "app_main" \notin in_flight
          /\ \A i \in 1..Len(AppMainOrder) :
                AppMainOrder[i] \in DisplaySteps => i < main_pc

\* C21 witness: game_task transmits after app_main has sent its seven frames
\* and returned
C21_Witness ==
    /\ in_flight = {"game_task"}
    /\ tx_count = 8
    /\ tm_shows = TestShows
    /\ main_pc = Len(AppMainOrder) + 1

\* C24: an error of rmt_config or rmt_driver_install inside ws2812_init
\* leaves the process running, with a NULL strip handed to init_hardware.
C24_InitFailureNotFatal ==
    init_err \in RmtErrors => (proc = "running" /\ strip = "NULL")

(***************************************************************************)
(* SpecGames: the four games, one game_task iteration per action.  A run   *)
(* plays one game; after its game over the menu hands over to it again.    *)
(* The games never read the clock, which stays where it is, and their      *)
(* rendering writes only the pixel buffer, which no game reads back.       *)
(***************************************************************************)
Games == {"PONG", "FLAPPY", "CATCH", "INVADERS"}

\* raw readings offered to the games: positions 0, 4 and 8
GameRawVals == {60, 150, 250}

\* the loop's read_tof_sensor and, with reads = 2, the one inside the game's
\* get_sensor_position, of a hand that reads v
GameReads(v, reads) ==
    LET rd1 == ReadTof(sensor_initialized, sim_dist, dir, HwOk(v))
        rd2 == IF reads = 2
               THEN ReadTof(sensor_initialized, rd1.sim_dist, rd1.dir, HwOk(v))
               ELSE rd1
    IN  [dist |-> rd1.dist, sim_dist |-> rd2.sim_dist, dir |-> rd2.dir,
         pos |-> PositionOf(rd2.dist)]

\* what an iteration of game_task in a game mode does outside the game
GameIterate(rd, mode) ==
    /\ sensor_distance' = rd.dist
    /\ sim_dist' = rd.sim_dist
    /\ dir' = rd.dir
    /\ current_mode' = mode
    /\ g_ev' = IF mode = "MENU" THEN "returned" ELSE "played"
    /\ UNCHANGED <<menu_selection, last_stable_selection,
                   selection_start_time, timer, ticks>>
    /\ UNCHANGED <<sensor_initialized, hw_failures, game>>
    /\ UNCHANGED <<encVars, idxVars, stripVars, callVars, obsVars, bootVars>>

\* mutant: the game keeps the loop after its game over
ModeAfter_stay(g, over) == g

\* current_mode = MENU on the game-over path of run_pong, run_flappy,
\* run_catch and run_invaders
ModeAfter(g, over) == IF over THEN "MENU" ELSE g

\* init_pong
init_pong(p) ==
    [p EXCEPT !.ball_x = 8, !.ball_vx = 1, !.player_y = 7,
              !.player_score = 0, !.ai_score = 0, !.game_over = FALSE]

\* mutant: the game ends when a score has passed 5
PongOver_past5(player_score, ai_score) == player_score > 5 \/ ai_score > 5

\* if (pong.player_score >= 5 || pong.ai_score >= 5)
PongOver(player_score, ai_score) == player_score >= 5 \/ ai_score >= 5

\* update_pong with the paddle at sensor position pos; hit_player and hit_ai
\* are the outcomes of the two paddle tests
update_pong(p, pos, hit_player, hit_ai) ==
    LET py == IF pos < 1 THEN 1 ELSE IF pos > 13 THEN 13 ELSE pos
        bx == p.ball_x + p.ball_vx
        a  == IF bx <= 1
              THEN IF hit_player
                   THEN [p EXCEPT !.ball_x = bx, !.ball_vx = -p.ball_vx]
                   ELSE [p EXCEPT !.ai_score = p.ai_score + 1,
                                  !.ball_x = 8, !.ball_vx = 1]
              ELSE [p EXCEPT !.ball_x = bx]
        b  == IF a.ball_x >= 14
              THEN IF hit_ai
                   THEN [a EXCEPT !.ball_vx = -a.ball_vx]
                   ELSE [a EXCEPT !.player_score = a.player_score + 1,
                                  !.ball_x = 8, !.ball_vx = -1]
              ELSE a
    IN  [b EXCEPT !.player_y = py,
                  !.game_over = b.game_over
                                \/ PongOver(b.player_score, b.ai_score)]

\* run_pong
run_pong(p, pos, hit_player, hit_ai) ==
    LET p0 == IF p.initialized THEN p
              ELSE [init_pong(p) EXCEPT !.initialized = TRUE]
        p1 == update_pong(p0, pos, hit_player, hit_ai)
    IN  IF p1.game_over
        THEN [st |-> [p1 EXCEPT !.initialized = FALSE],
              mode |-> ModeAfter("PONG", TRUE)]
        ELSE [st |-> p1, mode |-> ModeAfter("PONG", FALSE)]

PongTick ==
    /\ current_mode = "PONG"
    /\ \E v \in GameRawVals, hit_player \in BOOLEAN, hit_ai \in BOOLEAN :
         LET rd == GameReads(v, 2)
             r == run_pong(pong, rd.pos, hit_player, hit_ai)
         IN  /\ pong' = r.st
             /\ GameIterate(rd, r.mode)
    /\ UNCHANGED <<flappy, catch, inv>>

\* values of rand() % 8 + 3 that are explored: the extremes
FlappyGaps == {3, 10}

\* float comparisons of bird_y (twentieths): at exact equality the rounding
\* of the float sums decides, so tie may go either way
Above(y, lim, tie) == y > lim \/ (y = lim /\ tie)
Below(y, lim, tie) == y < lim \/ (y = lim /\ tie)

\* run_flappy
run_flappy(f, pos, gap, tie) ==
    IF f.game_over
    THEN [st |-> [f EXCEPT !.bird_y = 160, !.bird_vy = 0, !.pipe_x = 16,
                           !.game_over = FALSE, !.initialized = FALSE],
          mode |-> ModeAfter("FLAPPY", TRUE)]
    ELSE
      LET f0 == [f EXCEPT !.initialized = TRUE]
          vy == (IF pos < 5 THEN -30 ELSE f0.bird_vy) + 3
          y0 == f0.bird_y + vy
          y  == IF y0 < 0 THEN 0 ELSE y0
          f1 == [f0 EXCEPT !.bird_vy = vy, !.bird_y = y]
          px == IF f1.pipe_x - 1 < -1 THEN 16 ELSE f1.pipe_x - 1
          f2 == [f1 EXCEPT !.pipe_x = px,
                           !.pipe_gap_y = IF f1.pipe_x - 1 < -1 THEN gap
                                          ELSE f1.pipe_gap_y]
      IN  IF Above(y, 300, tie)
          THEN [st |-> [f1 EXCEPT !.game_over = TRUE], mode |-> ModeAfter("FLAPPY", FALSE)]
          ELSE IF /\ f2.pipe_x = 4
                  /\ \/ Below(y, 20 * f2.pipe_gap_y, tie)
                     \/ Above(y, 20 * (f2.pipe_gap_y + 3), tie)
               THEN [st |-> [f2 EXCEPT !.game_over = TRUE], mode |-> ModeAfter("FLAPPY", FALSE)]
               ELSE [st |-> f2, mode |-> ModeAfter("FLAPPY", FALSE)]

\* Bound: flaps the player makes in one game of Flappy Bird
MaxFlaps == 1

\* the readings offered to a tick of Flappy Bird: once the flaps are used
\* up the hand stays where it does not flap
FlappyRawVals ==
    IF flappy.flaps < MaxFlaps THEN GameRawVals
    ELSE {v \in GameRawVals : PositionOf(ClampRange(v)) >= 5}

FlappyTick ==
    /\ current_mode = "FLAPPY"
    /\ \E v \in FlappyRawVals, gap \in FlappyGaps, tie \in BOOLEAN :
         LET rd == GameReads(v, IF flappy.game_over THEN 1 ELSE 2)
             r == run_flappy(flappy, rd.pos, gap, tie)
             flapped == ~flappy.game_over /\ rd.pos < 5
         IN  /\ flappy' = [r.st EXCEPT !.flaps =
                               IF flappy.game_over THEN 0
                               ELSE IF flapped THEN @ + 1 ELSE @]
             /\ GameIterate(rd, r.mode)
    /\ UNCHANGED <<pong, catch, inv>>

\* Bound: the score past which a Catch game is not played on
MaxCatchScore == 2

\* values of rand() % 16 that are explored: under the baskets at 0 and 8,
\* and where no basket reaches
CatchItemXs == {1, 8, 15}

\* mutant: any item that is missed costs a life
CatchLanding_anymiss(c, basket_x) ==
    IF c.item_x >= basket_x /\ c.item_x < basket_x + 3
    THEN IF c.item_is_good
         THEN [c EXCEPT !.score = c.score + 1]
         ELSE [c EXCEPT !.lives = c.lives - 1]
    ELSE [c EXCEPT !.lives = c.lives - 1]

\* the body of if (item_y >= 14) before the next item is drawn
CatchLanding(c, basket_x) ==
    IF c.item_x >= basket_x /\ c.item_x < basket_x + 3
    THEN IF c.item_is_good
         THEN [c EXCEPT !.score = c.score + 1]
         ELSE [c EXCEPT !.lives = c.lives - 1]
    ELSE IF c.item_is_good
         THEN [c EXCEPT !.lives = c.lives - 1]
         ELSE c

\* run_catch; next_x and next_good are the two rand() draws
run_catch(c, pos, next_x, next_good) ==
    IF c.lives <= 0
    THEN [st |-> [c EXCEPT !.lives = 3, !.score = 0, !.initialized = FALSE],
          mode |-> ModeAfter("CATCH", TRUE)]
    ELSE
      LET bx == IF pos > 13 THEN 13 ELSE pos
          c0 == [c EXCEPT !.initialized = TRUE, !.basket_x = bx,
                          !.item_y = c.item_y + 3]
          c1 == IF c0.item_y >= 140
                THEN [CatchLanding(c0, bx) EXCEPT !.item_y = 0,
                                                  !.item_x = next_x,
                                                  !.item_is_good = next_good]
                ELSE c0
      IN  [st |-> c1, mode |-> ModeAfter("CATCH", FALSE)]

CatchTick ==
    /\ current_mode = "CATCH"
    /\ catch.score <= MaxCatchScore
    /\ \E v \in GameRawVals, next_x \in CatchItemXs, next_good \in BOOLEAN :
         LET rd == GameReads(v, IF catch.lives <= 0 THEN 1 ELSE 2)
             r == run_catch(catch, rd.pos, next_x, next_good)
         IN  /\ catch' = r.st
             /\ GameIterate(rd, r.mode)
    /\ UNCHANGED <<pong, flappy, inv>>

Abs(n) == IF n < 0 THEN -n ELSE n

\* mutant: a new bullet may replace one in flight
FireTest_nocheck(bullet_y, player_x, last_player_x) ==
    Abs(player_x - last_player_x) > 3

\* if (bullet_y < 0 && abs(player_x - last_player_x) > 3)
FireTest(bullet_y, player_x, last_player_x) ==
    bullet_y < 0 /\ Abs(player_x - last_player_x) > 3

\* the test of the collision loop for invader i
InvaderHit(s, i, bullet_x, bullet_y) ==
    LET inv_x == (i % 5) * 3 + 1
        inv_y == (i \div 5) * 2 + 1 + s.invader_y
    IN  /\ s.invaders[i] # 0
        /\ bullet_x >= inv_x /\ bullet_x < inv_x + 2
        /\ bullet_y >= inv_y /\ bullet_y < inv_y + 2

\* run_invaders
run_invaders(s, pos) ==
    LET s0 == IF s.initialized THEN s
              ELSE [s EXCEPT !.invaders = [i \in 0..19 |-> 1], !.score = 0,
                             !.initialized = TRUE]
        px == IF pos > 14 THEN 14 ELSE pos
        fire == FireTest(s0.bullet_y, px, s0.last_player_x)
        s1 == [s0 EXCEPT !.player_x = px, !.last_player_x = px,
                         !.fired = fire,
                         !.bullet_x = IF fire THEN px + 1 ELSE s0.bullet_x,
                         !.bullet_y = IF fire THEN 13 ELSE s0.bullet_y]
        by == s1.bullet_y - 1
        hits == {i \in 0..19 : InvaderHit(s1, i, s1.bullet_x, by)}
        first == CHOOSE i \in hits : \A j \in hits : i <= j
        s2 == IF s1.bullet_y >= 0
              THEN IF hits # {}
                   THEN [s1 EXCEPT !.invaders[first] = 0, !.bullet_y = -1,
                                   !.score = s1.score + 1]
                   ELSE [s1 EXCEPT !.bullet_y = by]
              ELSE s1
        any_alive == \E i \in 0..19 : s2.invaders[i] # 0
    IN  IF any_alive
        THEN [st |-> s2, mode |-> ModeAfter("INVADERS", FALSE)]
        ELSE [st |-> [s2 EXCEPT !.initialized = FALSE],
              mode |-> ModeAfter("INVADERS", TRUE)]

InvadersTick ==
    /\ current_mode = "INVADERS"
    /\ \E v \in GameRawVals :
         LET rd == GameReads(v, 2)
             r == run_invaders(inv, rd.pos)
         IN  /\ inv' = r.st
             /\ GameIterate(rd, r.mode)
    /\ UNCHANGED <<pong, flappy, catch>>

\* a game of Space Invaders under way in which the invaders of the three
\* right-hand columns have been shot: the readings of GameRawVals aim at the
\* two left-hand columns only
InvadersMidGame ==
    [InvadersStatics EXCEPT
        !.invaders = [i \in 0..19 |-> IF i % 5 \in {0, 1} THEN 1 ELSE 0],
        !.initialized = TRUE, !.score = 12]

\* the menu confirms the game again (MenuCase of Spec, with the selection
\* fixed to this run's game)
Reselect ==
    /\ current_mode = "MENU"
    /\ game \in Games
    /\ current_mode' = game
    /\ g_ev' = "selected"
    /\ UNCHANGED <<menu_selection, last_stable_selection,
                   selection_start_time, sensor_distance, timer, ticks>>
    /\ UNCHANGED <<encVars, idxVars, stripVars, simVars, callVars, obsVars,
                   bootVars, pong, flappy, catch, inv, game>>

InitGames ==
    /\ IdxIdle
    /\ BootIdle
    /\ EncIdle
    /\ StripIdle
    /\ sensor_initialized = TRUE
    /\ SensorIdle
    /\ game \in Games
    /\ g_ev = "none"
    /\ pong = PongStatics
    /\ flappy = FlappyStatics
    /\ catch = CatchStatics
    /\ inv \in IF game = "INVADERS" THEN {InvadersStatics, InvadersMidGame}
               ELSE {InvadersStatics}
    \* the game under way is in its mode; the others start from the menu
    /\ current_mode = IF inv = InvadersMidGame THEN "INVADERS" ELSE "MENU"
    /\ menu_selection = -1
    /\ last_stable_selection = -1
    /\ selection_start_time = Zero32
    /\ sensor_distance = 200
    /\ timer = Zero32
    /\ ticks = 0
    /\ ev = "boot"
    /\ tk_d2 = -1
    /\ tk_q = -1
    /\ tk_had_cand = FALSE
    /\ q_run = NoQRun
    /\ inrange_since = NoTime
    /\ const_run = NoRun

NextGames ==
    \/ Reselect
    \/ PongTick
    \/ FlappyTick
    \/ CatchTick
    \/ InvadersTick

SpecGames == InitGames /\ [][NextGames]_vars

AllDestroyed(s) == \A i \in 0..19 : s.invaders[i] = 0

\* C27: every game returns to the menu after its game-over condition: the
\* tick of Pong that sets game_over and the tick of Space Invaders that
\* destroys the last invader end in MENU, and so does the tick of Flappy Bird
\* that begins with game_over set and the tick of Catch that begins with no
\* lives left.
C27_GameOverReturnsToMenu ==
    [][/\ (current_mode = "PONG" /\ pong'.game_over) =>
              current_mode' = "MENU"
       /\ (current_mode = "INVADERS" /\ AllDestroyed(inv')) =>
              current_mode' = "MENU"
       /\ (current_mode = "FLAPPY" /\ flappy.game_over) =>
              current_mode' = "MENU"
       /\ (current_mode = "CATCH" /\ catch.lives <= 0) =>
              current_mode' = "MENU"
      ]_vars

\* C27 witness: a game of Flappy Bird that went on past the first pipe has
\* ended and the loop is back in the menu
C27_Witness ==
    /\ game = "FLAPPY"
    /\ g_ev = "returned"
    /\ current_mode = "MENU"
    /\ flappy.pipe_gap_y = 10
    /\ ~flappy.game_over

\* C28: Pong is first to 5: a tick awards at most one point, game_over is
\* true from exactly the tick on which a score reaches 5, and both scores
\* stay in 0..5.
C28_PongFirstToFive ==
    /\ [](/\ pong.player_score \in 0..5
          /\ pong.ai_score \in 0..5
          /\ pong.game_over <=>
                (pong.player_score = 5 \/ pong.ai_score = 5))
    /\ [][current_mode = "PONG" =>
            LET ps == IF pong.initialized THEN pong.player_score ELSE 0
                as == IF pong.initialized THEN pong.ai_score ELSE 0
                dp == pong'.player_score - ps
                da == pong'.ai_score - as
            IN  /\ dp \in {0, 1}
                /\ da \in {0, 1}
                /\ dp + da <= 1
                /\ pong'.game_over <=>
                      (dp + da = 1 /\ (pong'.player_score = 5
                                       \/ pong'.ai_score = 5))
         ]_vars

\* C28 witness: a game that the AI won 5 to 3
C28_Witness ==
    /\ pong.game_over
    /\ pong.ai_score = 5
    /\ pong.player_score = 3
    /\ current_mode = "MENU"

\* C29: Catch has 3 lives: lives stays in 0..3; a tick takes exactly one
\* life when, and only when, a good item lands outside the basket or a bad
\* one inside it; the score grows by one only for a good item caught; the
\* tick that finds no lives left ends the game with lives 3 and score 0.
C29_CatchThreeLives ==
    /\ [](catch.lives \in 0..3)
    /\ [][current_mode = "CATCH" =>
            LET landed == catch.lives > 0 /\ catch.item_y + 3 >= 140
                inside == /\ catch.item_x >= catch'.basket_x
                          /\ catch.item_x < catch'.basket_x + 3
                lose == landed /\ (catch.item_is_good <=> ~inside)
                gain == landed /\ catch.item_is_good /\ inside
            IN  IF catch.lives > 0
                THEN /\ catch'.lives = catch.lives - (IF lose THEN 1 ELSE 0)
                     /\ catch'.score = catch.score + (IF gain THEN 1 ELSE 0)
                     /\ current_mode' = "CATCH"
                ELSE /\ catch'.lives = 3
                     /\ catch'.score = 0
                     /\ current_mode' = "MENU"
         ]_vars

\* C29 witness: the last life is gone in a game that scored
C29_Witness ==
    /\ current_mode = "CATCH"
    /\ catch.lives = 0
    /\ catch.score = 2

\* C30: a tick of Space Invaders fires exactly when no bullet is in flight
\* and the ship moved by more than 3 since the previous tick; the bullet
\* fired starts above the ship, and a bullet in flight is not replaced.
C30_BulletFiredOnQuickMove ==
    /\ [](inv.last_player_x = inv.player_x)
    /\ [][current_mode = "INVADERS" =>
            /\ inv'.fired <=>
                  (inv.bullet_y < 0
                   /\ Abs(inv'.player_x - inv.player_x) > 3)
            /\ inv'.fired =>
                  (inv'.bullet_x = inv'.player_x + 1 /\ inv'.bullet_y = 12)
            /\ inv.bullet_y >= 0 =>
                  /\ ~inv'.fired
                  /\ inv'.bullet_y >= 0 =>
                        /\ inv'.bullet_x = inv.bullet_x
                        /\ inv'.bullet_y = inv.bullet_y - 1
         ]_vars

\* C30 witness: a second bullet leaves after the first one hit
C30_Witness ==
    /\ current_mode = "INVADERS"
    /\ inv.fired
    /\ inv.bullet_y = 12
    /\ inv.score = 1

\* C31: each time a game is entered from the menu its state is the initial
\* one: the statics of run_flappy, run_catch and run_invaders have their
\* initial values (the invaders and the score are set by the first tick),
\* and run_pong is about to call init_pong.
C31_GameStateReinitialised ==
    (g_ev = "selected" /\ current_mode = game) =>
        /\ game = "PONG" => ~pong.initialized
        /\ game = "FLAPPY" => flappy = FlappyStatics
        /\ game = "CATCH" => catch = CatchStatics
        /\ game = "INVADERS" =>
              /\ ~inv.initialized
              /\ [inv EXCEPT !.invaders = InvadersStatics.invaders,
                             !.score = 0, !.fired = FALSE] = InvadersStatics

\* C32: the brightness in effect at every transmission is the configured 50:
\* once a strip exists its brightness is BRIGHTNESS, every byte of a pulse
\* train is at most 50, and the train just sent carries floor(c * 50 / 255)
\* for each stored channel c, in g, r, b order.
C32_BrightnessFiftyAtEveryShow ==
    /\ (strip = "ok" \/ tx_count > 0) => brightness = BRIGHTNESS
    /\ show_result = "sent" =>
          /\ Len(rmt_items) = 24 * NumPixels
          /\ \A j \in 0..(3 * NumPixels - 1) : TrainByte(rmt_items, j) <= 50
    /\ (show_result = "sent" /\ strip_call.op = "show") =>
          \A i \in 0..(NumPixels - 1) :
              /\ TrainByte(rmt_items, 3 * i) = (pixels[i].g * 50) \div 255
              /\ TrainByte(rmt_items, 3 * i + 1) = (pixels[i].r * 50) \div 255
              /\ TrainByte(rmt_items, 3 * i + 2) = (pixels[i].b * 50) \div 255

\* C32 witness: game_task is sending a frame whose pixel 0 is (255,0,0), as
\* the bytes (0,50,0)
C32_Witness ==
    /\ in_flight = {"game_task"}
    /\ show_result = "sent"
    /\ strip_call.op = "show"
    /\ pixels[0] = [r |-> 255, g |-> 0, b |-> 0]
    /\ TrainByte(rmt_items, 0) = 0
    /\ TrainByte(rmt_items, 1) = 50
    /\ TrainByte(rmt_items, 2) = 0

C33_ModeTransitions ==
    [][current_mode' # current_mode =>
         \/ /\ current_mode = "MENU"
            /\ current_mode' \in Games
            /\ ev' = "confirmed"
         \/ /\ current_mode \in Games
            /\ current_mode' = "MENU"
            /\ ev' = "game_over"
      ]_vars

\* C33 witness: a game entered by a confirmation has ended and the loop is
\* back in the menu
C33_Witness ==
    /\ ev = "game_over"
    /\ current_mode = "MENU"
    /\ ticks >= 3

\* C34: between iterations menu_selection equals last_stable_selection and
\* is one of -1, 0, 1, 2, 3; outside MENU the selection state is Idle.
C34_SelectionStateConsistent ==
    /\ menu_selection = last_stable_selection
    /\ menu_selection \in -1..3
    /\ current_mode # "MENU" =>
          IdleSelection(menu_selection, last_stable_selection,
                        selection_start_time)

\* C34 witness: a game is running, the selection state Idle
C34_Witness ==
    /\ current_mode = "FLAPPY"
    /\ ev = "game"
    /\ IdleSelection(menu_selection, last_stable_selection, selection_start_time)

\* C39: a hold that began before the 32-bit millisecond counter wrapped and
\* goes on after it is confirmed in the first iteration that comes at least
\* 5000 ms of real time after its begin, and in no earlier one.
C39_HoldAcrossCounterWrap ==
    [][(/\ Iteration
        /\ current_mode = "MENU"
        /\ const_run # NoRun
        /\ sensor_distance' = const_run.val
        /\ tk_d2' = const_run.val
        /\ const_run.since[1] = 65535
        /\ timer[1] >= 65536)
       => /\ selection_start_time = Low32(const_run.since)
          /\ Low32(timer)[1] < selection_start_time[1]
          /\ ev' = "confirmed" <=> DiffMs(timer, const_run.since) >= 5000
      ]_vars

\* C39 witness: a hold begun 2500 ms before the wrap was confirmed 5000 ms
\* after its begin
C39_Witness ==
    /\ ev = "confirmed"
    /\ const_run.since = <<65535, 65536 - 2500>>
    /\ \E dt \in DtSet :
          DiffMs(timer, const_run.since) = 5000 + dt + TRANSITION_MS
    /\ timer[1] = 65536

(***************************************************************************)
(* SpecAbsent: the menu loop without a sensor, every read synthetic, the   *)
(* iterations shorter than 500 ms                                          *)
(***************************************************************************)
\* Bound: the longest loop iteration explored, ms
FastTick == 499
\* Bound: loop iterations explored (the generator's sweep takes about 55)
MaxAbsentTicks == 60

FastDts == {TICK_MS, FastTick}

InitAbsent ==
    /\ IdxIdle
    /\ BootIdle
    /\ GamesIdle
    /\ sensor_initialized = FALSE
    /\ SensorIdle
    /\ EncIdle
    /\ StripIdle
    /\ current_mode = "MENU"
    /\ menu_selection = -1
    /\ last_stable_selection = -1
    /\ selection_start_time = Zero32
    /\ sensor_distance = 200
    /\ timer = <<0, 13000>>
    /\ ticks = 0
    /\ ev = "boot"
    /\ tk_d2 = -1
    /\ tk_q = -1
    /\ tk_had_cand = FALSE
    /\ q_run = NoQRun
    /\ inrange_since = NoTime
    /\ const_run = NoRun

\* an iteration of game_task in MENU mode whose reads all fall back
AbsentTick ==
    /\ current_mode = "MENU"
    /\ ~sensor_initialized
    /\ ticks < MaxAbsentTicks
    /\ \E dt \in FastDts :
         LET rd1 == ReadTof(sensor_initialized, sim_dist, dir, HwFail)
             rd2 == ReadTof(sensor_initialized, rd1.sim_dist, rd1.dir, HwFail)
         IN  Iterate(MenuCase(rd1, rd2, timer), rd1, rd2, dt)

NextAbsent == AbsentTick

SpecAbsent == InitAbsent /\ [][NextAbsent]_vars

\* C35: without a sensor and with iterations shorter than 500 ms nothing is
\* ever confirmed: whenever an iteration finds the candidate unchanged, less
\* than 5000 ms have passed since the candidate was established, and
\* current_mode stays MENU.
C35_NoSensorNoSelection ==
    /\ [](current_mode = "MENU" /\ ev # "confirmed")
    /\ [][Iteration /\ tk_q' # -1 /\ tk_q' = last_stable_selection =>
            /\ ev' = "holding"
            /\ DiffMs(Low32(timer), selection_start_time) < SELECTION_HOLD_TIME
         ]_vars

\* C35 witness: late in the sweep a candidate has been held for more than
\* four seconds
C35_Witness ==
    /\ ticks >= 40
    /\ ev = "holding"
    /\ last_stable_selection # -1
    /\ DiffMs(Low32(timer), selection_start_time) >= 4000
    /\ current_mode = "MENU"

(***************************************************************************)
(* SpecScale: (pixel channel * brightness) / 255 on every pair of bytes    *)
(***************************************************************************)
InitScale ==
    /\ IdxIdle
    /\ BootIdle
    /\ GamesIdle
    /\ enc_byte = 0
    /\ enc_items = << >>
    /\ alt_items = << >>
    /\ \E c \in 0..255, b \in 0..255 :
         scale_call = [c |-> c, b |-> b, out |-> -1]
    /\ StripIdle
    /\ sensor_initialized = FALSE
    /\ SensorIdle
    /\ LoopIdle

\* one channel of one pixel scaled by ws2812_show
ScaleCall ==
    /\ scale_call.out = -1
    /\ scale_call' =
         [scale_call EXCEPT !.out = ScaleChannel(scale_call.c, scale_call.b)]
    /\ UNCHANGED <<enc_byte, enc_items, alt_items, idxVars, stripVars,
                   simVars, callVars, loopVars, obsVars, bootVars, gameVars>>

NextScale == ScaleCall

SpecScale == InitScale /\ [][NextScale]_vars

\* C36: for every colour component c and brightness B in 0..255 the scaled
\* value is floor(c*B/255) with no wrap-around, fits in 8 bits, is at most
\* c and at most B, equals c when B = 255 and 0 when B = 0 or c = 0.
C36_ScalingStaysInByte ==
    scale_call.out # -1 =>
        LET c == scale_call.c
            B == scale_call.b
            out == scale_call.out
        IN  /\ out \in 0..255
            /\ out = (c * B) \div 255
            /\ out <= c
            /\ out <= B
            /\ (B = 255 => out = c)
            /\ (B = 0 \/ c = 0 => out = 0)

\* C36 witness: full white at the program's brightness scales to 50, and a
\* product above 16 bits' half is scaled too
C36_Witness ==
    \/ scale_call = [c |-> 255, b |-> 50, out |-> 50]
    \/ scale_call = [c |-> 255, b |-> 255, out |-> 255]

\* C37: for N pixels ws2812_show writes every one of the 24*N slots of the
\* buffer exactly once (24*N writes that reach all 24*N slots), writes no
\* slot outside it, and hands exactly num_items = 24*N items, the ones
\* written, to the peripheral.
C37_ShowFillsBufferExactly ==
    show_result = "sent" =>
        LET w == ShowWritesFrom(pixels, brightness, 0, 0)
        IN  /\ NumItems = 24 * NumPixels
            /\ Len(w) = NumItems
            /\ \A k \in 1..Len(w) : w[k].at \in 0..(NumItems - 1)
            /\ {w[k].at : k \in 1..Len(w)} = 0..(NumItems - 1)
            /\ Len(rmt_items) = NumItems
            /\ \A k \in 1..Len(w) : rmt_items[w[k].at + 1] = w[k].val

\* C37 witness: a transmission whose last slot, the lowest blue bit of the
\* last pixel (254 scaled by 254 is 253), carries a '1'
C37_Witness ==
    /\ show_result = "sent"
    /\ brightness = 254
    /\ pixels[NumPixels - 1].b = 254
    /\ Len(rmt_items) = NumItems
    /\ rmt_items[NumItems] = ws2812_write_byte(253)[8]
    /\ rmt_items[NumItems] = ws2812_write_byte(1)[8]

=============================================================================
